---- MODULE Spec2Model ----
(***************************************************************************)
(* A model of the AIRS watchman service: the polling control loop, its     *)
(* statistics and its status server (watchman-service/index.js), the state *)
(* tracker (services/poller.js), the critical detector                     *)
(* (services/detector.js), the progressive-backoff remediator              *)
(* (services/remediator.js) and the budget-gated remediator with its       *)
(* TokenManager (services/token_manager.js); and of the inventory backend  *)
(* it polls: the Service model, the metrics simulation, the remediation    *)
(* service and the routes that write the services.                         *)
(*                                                                         *)
(* Time is Date.now() in milliseconds.  An await is a step boundary: the   *)
(* synchronous code between two awaits is one action.                      *)
(***************************************************************************)
EXTENDS Integers, Sequences, FiniteSets, TLC

(***************************************************************************)
(* Bounds of the model.                                                    *)
(***************************************************************************)
\* the clock advances at most this many times in a run of the remediator alone
MaxTicks == 4
\* the clock advances at most this many times in a run of the control loop, and
\* in a run of the remediator over the whole inventory
MaxLoopTicks == 2
\* requests the budget-gated orchestrator issues in one run
MaxRequests == 3
\* calls of the detector on one pair of snapshots
MaxDetections == 2
\* POST /record-remediation requests the status server handles between two resets
MaxRecords == 102
\* the first requests of a run, which report either outcome
VariedRecords == 3
\* calls of detectSuccessfulRemediations by a direct caller in one run
MaxScans == 3
\* the clock advances at most this many times in a run of the statistics alone
MaxStatTicks == 2
\* startPollingLoop invocations in flight at once
MaxInFlight == 3
\* setTimeout calls of startPollingLoop in one run
MaxHandles == 4
\* attempts recorded so far up to which a request to /record-remediation is
\* handled in a run of the control loop with the status server
MaxManual == 2
\* the clock advances at most this many times in a run of the budget-gated
\* triggerRemediation
MaxGatedTicks == 2
\* services in the snapshot the system load is computed from
MaxFleet == 20
\* remediations of one service the backend has pending at once
MaxCompletions == 2

(***************************************************************************)
(* Program constants.                                                      *)
(***************************************************************************)
MsPerMinute == 60000
BackoffIndexCap == 3
DailyTokenBudget == 450000
MinuteTokenBudget == 5400
DailyRequestBudget == 18000
MinuteRequestBudget == 180
DailyTokenLimit == 500000
MinuteTokenLimit == 6000
DailyRequestLimit == 20000
MinuteRequestLimit == 200
MinRetryGapMs == 120000
RetryDelayMs == 30000
NormalIntervalSec == 30
DegradedIntervalSec == 15
CriticalIntervalSec == 10

\* backoffSchedule of triggerRemediation: 5m, 15m, 30m, 1h
backoffSchedule == <<300000, 900000, 1800000, 3600000>>

\* STATES of config/constants.js
HEALTHY == "healthy"
WARNING == "warning"
CRITICAL == "critical"
Statuses == {HEALTHY, WARNING, CRITICAL}

\* ids of the inventory's services, in the order the inventory lists them
ServiceOrder == <<"S1", "S2">>
ServiceIds == {ServiceOrder[i] : i \in 1..Len(ServiceOrder)}

\* Date.now() at process start: any instant later than one hour after the epoch
StartTime == 60 * MsPerMinute

\* the amounts by which the clock advances between two steps
Deltas == {4 * MsPerMinute, 15 * MsPerMinute, 30 * MsPerMinute, 60 * MsPerMinute}

\* the same, in the runs over the whole inventory
FleetDeltas == {4 * MsPerMinute, 15 * MsPerMinute}

\* the same, in the runs of the control loop
LoopDeltas == {15 * MsPerMinute}

Min(a, b) == IF a < b THEN a ELSE b

\* Math.ceil(a / b) for a >= 0, b > 0
CeilDiv(a, b) == (a + b - 1) \div b

(***************************************************************************)
(* State.                                                                  *)
(***************************************************************************)
VARIABLES
  now,                         \* Date.now()
  ticks,                       \* how many times the clock advanced
  inventory,                   \* the ids of the services the inventory lists, in its order
  isRunning,                   \* AIWatchman.isRunning
  timer,                       \* the pending setTimeout of startPollingLoop
  currentServices,             \* AIWatchman.currentServices, the last polled snapshot
  previousState,               \* ServicePoller.previousState
  shownRecovered,              \* history: the tracked services that the poll before
                               \* the last one showed with a status other than critical
  persistentCriticalServices,  \* AutoRemediator.persistentCriticalServices
  recovered,                   \* the ids the last cleanup logged as recovered and removed
  pc,                          \* where the one asynchronous call chain stands
  caller,                      \* which operation drives the triggerRemediation calls
  queue,                       \* the services the running for-loop has still to trigger
  args,                        \* the services argument of the running operation
  call,                        \* the frame of the triggerRemediation call in flight
  lastCall,                    \* what the last triggerRemediation call saw and returned
  dailyTokens,                 \* TokenManager.dailyTokens
  minuteTokens,                \* TokenManager.minuteTokens
  dailyRequests,               \* TokenManager.dailyRequests
  minuteRequests,              \* TokenManager.minuteRequests
  gate,                        \* where triggerLangflowWorkflow stands
  estimatedTokens,             \* the estimate of the triggerLangflowWorkflow call in flight
  gateResult,                  \* what the last triggerLangflowWorkflow call returned
  issued,                      \* triggerLangflowWorkflow calls started so far
  admissions,                  \* history: the canMakeRequest calls that returned true
                               \* since the minute counters were last reset
  charged,                     \* history: the recordRequest calls made by the last
                               \* triggerLangflowWorkflow call
  serviceData,                 \* fallbackBasicRemediation: the details it fetched
  action,                      \* fallbackBasicRemediation: the action it chose
  fallbackCalls,               \* history: how the detail fetch and the post of the
                               \* last fallbackBasicRemediation ended
  detection,                   \* what detectCriticalChanges returned to a direct caller
  detections,                  \* detectCriticalChanges calls made by direct callers
  remediationStats,            \* AIWatchman.remediationStats
  scans,                       \* detectSuccessfulRemediations calls made by direct callers
  inFlight,                    \* startPollingLoop invocations between their poll and
                               \* their setTimeout
  pendingTimers,               \* the handles of the setTimeout calls not yet expired
                               \* nor cleared
  currentInterval,             \* AIWatchman.currentInterval: a handle, or 0 for null
  handles,                     \* setTimeout calls made so far
  remediationHistory,          \* AutoRemediator.remediationHistory of the budget-gated
                               \* orchestrator: the last attempt of every service
  system_load,                 \* the system_load of the last answer of GET
                               \* /remediation-stats
  backendServices,             \* the inventory backend: its services array, by id
  completions,                 \* the inventory backend: the pending setTimeout
                               \* callbacks of remediateService, counted by service
  served                       \* history: the handler or callback of the backend that
                               \* ran last, its service and the HTTP status it answered

loopVars == <<isRunning, timer, currentServices, previousState, shownRecovered>>
chainVars == <<pc, caller, queue, args, call, lastCall>>
remediatorVars == <<persistentCriticalServices, recovered>>
counters == <<dailyTokens, minuteTokens, dailyRequests, minuteRequests>>
budgetVars ==
  <<counters, gate, estimatedTokens, gateResult, issued, admissions, charged,
    serviceData, action, fallbackCalls, remediationHistory>>
clock == <<now, ticks, inventory>>
detectorVars == <<detection, detections, system_load>>
statsVars == <<remediationStats, scans>>
lifecycleVars == <<inFlight, pendingTimers, currentInterval, handles>>
backendVars == <<backendServices, completions, served>>
vars ==
  <<clock, loopVars, chainVars, remediatorVars, budgetVars, detectorVars, statsVars,
    lifecycleVars, backendVars>>

(***************************************************************************)
(* Snapshots: lists of service records.                                     *)
(***************************************************************************)
ServiceRecords(ids) ==
  [id : ids, status : Statuses,
   awaitingRemediation : BOOLEAN, remediationInProgress : BOOLEAN]

OrderIndex(id) == CHOOSE i \in 1..Len(ServiceOrder) : ServiceOrder[i] = id

\* lists of services with distinct ids among those of inv, in the inventory's order
Snapshots(inv) ==
  {sn \in UNION {[1..n -> ServiceRecords({inv[i] : i \in 1..Len(inv)})] :
                   n \in 0..Len(inv)} :
     \A i, j \in 1..Len(sn) : i < j => OrderIndex(sn[i].id) < OrderIndex(sn[j].id)}

\* the records the backend serves as long as no remediation completes after a
\* reset of its services: a service awaits remediation, or is being
\* remediated, only while it is critical, never both at once, and a critical
\* service does one of the two
Served(record) ==
  /\ record.awaitingRemediation =>
       record.status = CRITICAL /\ ~record.remediationInProgress
  /\ record.remediationInProgress => record.status = CRITICAL
  /\ record.status = CRITICAL =>
       record.awaitingRemediation \/ record.remediationInProgress

\* what GET /api/services of the backend can answer
PollAnswers(inv) ==
  {sn \in Snapshots(inv) : \A i \in 1..Len(sn) : Served(sn[i])}

RECURSIVE FilterSeq(_, _)
\* Array.prototype.filter with the predicate given as the set of elements it keeps
FilterSeq(seq, keep) ==
  IF seq = <<>> THEN <<>>
  ELSE IF Head(seq) \in keep
       THEN <<Head(seq)>> \o FilterSeq(Tail(seq), keep)
       ELSE FilterSeq(Tail(seq), keep)

Ids(seq) == {seq[i].id : i \in 1..Len(seq)}
IdSeq(seq) == [i \in 1..Len(seq) |-> seq[i].id]
Elems(seq) == {seq[i] : i \in 1..Len(seq)}

\* the test of detector.js:12, used again by remediator.js:190 and index.js:147
IsCriticalAwaiting(service) ==
  service.status = CRITICAL /\ service.awaitingRemediation

(***************************************************************************)
(* CriticalDetector (services/detector.js).                                *)
(***************************************************************************)
\* a test that takes a previously critical service for new when it was not
\* awaiting remediation then
IsNewCriticalByFlags(service, previous) ==
  /\ IsCriticalAwaiting(service)
  /\ \/ service.id \notin DOMAIN previous
     \/ ~(/\ previous[service.id].status = CRITICAL
          /\ previous[service.id].awaitingRemediation)

\* isCritical && (!previous || previous.status !== STATES.CRITICAL)
IsNewCritical(service, previous) ==
  /\ IsCriticalAwaiting(service)
  /\ \/ service.id \notin DOMAIN previous
     \/ previous[service.id].status # CRITICAL

newCriticalServices(services, previous) ==
  FilterSeq(services, {s \in Elems(services) : IsNewCritical(s, previous)})

\* an interval that takes any critical service for a reason to poll fastest
calculatePollingIntervalAnyCritical(services) ==
  IF \E s \in Elems(services) : s.status = CRITICAL THEN CriticalIntervalSec
  ELSE IF \E s \in Elems(services) : s.status = WARNING THEN DegradedIntervalSec
  ELSE NormalIntervalSec

\* calculatePollingInterval(services), in seconds
calculatePollingInterval(services) ==
  IF \E s \in Elems(services) : IsCriticalAwaiting(s) THEN CriticalIntervalSec
  ELSE IF \E s \in Elems(services) : s.status = WARNING THEN DegradedIntervalSec
  ELSE NormalIntervalSec

(***************************************************************************)
(* ServicePoller.storeCurrentState (services/poller.js).                   *)
(***************************************************************************)
\* a store that overwrites the entries of the snapshot's services and keeps the
\* entries of every other id
storeMerging(services, t) ==
  [id \in Ids(services) \cup DOMAIN previousState |->
     IF id \in Ids(services)
     THEN LET s == CHOOSE x \in Elems(services) : x.id = id
          IN [status |-> s.status,
              awaitingRemediation |-> s.awaitingRemediation,
              remediationInProgress |-> s.remediationInProgress,
              timestamp |-> t]
     ELSE previousState[id]]

storeCurrentState(services, t) ==
  [id \in Ids(services) |->
     LET s == CHOOSE x \in Elems(services) : x.id = id
     IN [status |-> s.status,
         awaitingRemediation |-> s.awaitingRemediation,
         remediationInProgress |-> s.remediationInProgress,
         timestamp |-> t]]

(***************************************************************************)
(* CriticalDetector.detectCriticalChanges: its return value and what it    *)
(* leaves of its arguments.                                                *)
(***************************************************************************)
RECURSIVE stateChanges(_, _, _)
\* the stateChanges array: for each service in turn, an entry when it is newly
\* critical, then an entry when its status differs from the previous one
stateChanges(services, previous, t) ==
  IF services = <<>> THEN <<>>
  ELSE LET service == Head(services)
           entered ==
             IF IsNewCritical(service, previous)
             THEN <<[serviceId |-> service.id, from |-> HEALTHY, to |-> CRITICAL,
                     timestamp |-> t]>>
             ELSE <<>>
           changed ==
             IF service.id \in DOMAIN previous
                /\ previous[service.id].status # service.status
             THEN <<[serviceId |-> service.id, from |-> previous[service.id].status,
                     to |-> service.status, timestamp |-> t]>>
             ELSE <<>>
       IN entered \o changed \o stateChanges(Tail(services), previous, t)

\* the object detectCriticalChanges(currentServices, previousState) returns
detectCriticalChanges(services, previous, t) ==
  [called |-> TRUE,
   newCriticalServices |-> newCriticalServices(services, previous),
   stateChanges |-> stateChanges(services, previous, t),
   criticalCount |->
     Len(FilterSeq(services, {s \in Elems(services) : IsCriticalAwaiting(s)})),
   warningCount |->
     Len(FilterSeq(services, {s \in Elems(services) : s.status = WARNING})),
   totalServices |-> Len(services)]

\* detectCriticalChanges was not called
NoDetection ==
  [called |-> FALSE, newCriticalServices |-> <<>>, stateChanges |-> <<>>,
   criticalCount |-> 0, warningCount |-> 0, totalServices |-> 0]

\* a detector that stores the snapshot it was given as the previous state
previousAfterDetectStoring(services, previous, t) == storeCurrentState(services, t)

\* the previous-state map after detectCriticalChanges ran: the detector only
\* calls previousState.get
previousAfterDetect(services, previous, t) == previous

(***************************************************************************)
(* AIWatchman.remediationStats (index.js): the record log, its counters    *)
(* and the last processed state of every service.                          *)
(***************************************************************************)
\* "Keep only last 100 records"
HistoryCap == 100

\* "Within 60 seconds"
DedupeWindowMs == 60000

\* remediationStats as the constructor and POST /reset-stats set it
NoStats ==
  [totalAttempts |-> 0, successfulRemediations |-> 0, failedRemediations |-> 0,
   activeRemediations |-> 0, remediationHistory |-> <<>>,
   lastProcessedServices |-> <<>>]

\* Map.prototype.set
MapSet(map, key, value) ==
  [k \in DOMAIN map \cup {key} |-> IF k = key THEN value ELSE map[k]]

\* a log that is cut at its newest end when it is full
unshiftCappedNewest(history, record) ==
  LET unshifted == <<record>> \o history
  IN IF Len(unshifted) > HistoryCap THEN SubSeq(unshifted, 2, HistoryCap + 1)
     ELSE unshifted

\* remediationHistory after unshift(record) and the cut to the last 100 records
unshiftCapped(history, record) ==
  LET unshifted == <<record>> \o history
  IN IF Len(unshifted) > HistoryCap THEN SubSeq(unshifted, 1, HistoryCap)
     ELSE unshifted

\* recordRemediationAttempt(serviceId, serviceName, success, source) at the instant t
recordRemediationAttempt(stats, serviceId, success, source, t) ==
  LET total == stats.totalAttempts + 1
      successful == stats.successfulRemediations + (IF success THEN 1 ELSE 0)
      failed == stats.failedRemediations + (IF success THEN 0 ELSE 1)
      remediationRecord ==
        [timestamp |-> t, serviceId |-> serviceId, success |-> success,
         source |-> source, totalAttempts |-> total,
         successfulRemediations |-> successful]
  IN [stats EXCEPT
        !.totalAttempts = total,
        !.successfulRemediations = successful,
        !.failedRemediations = failed,
        !.remediationHistory = unshiftCapped(stats.remediationHistory,
                                             remediationRecord)]

\* what lastProcessedServices keeps of a service observed at the instant t
Observed(service, t) ==
  [status |-> service.status,
   awaitingRemediation |-> service.awaitingRemediation,
   remediationInProgress |-> service.remediationInProgress,
   timestamp |-> t]

\* a test that takes only a critical status for a bad state
wasInBadStateCriticalOnly(previous) == previous.status = CRITICAL

\* wasInBadState
wasInBadState(previous) ==
  \/ previous.status = CRITICAL
  \/ previous.remediationInProgress
  \/ previous.awaitingRemediation

\* isNowHealthy
isNowHealthy(service) ==
  /\ service.status = HEALTHY
  /\ ~service.remediationInProgress
  /\ ~service.awaitingRemediation

\* recentRemediation: the log holds a record of the service within 60 seconds
recentRemediation(history, serviceId, t) ==
  \E i \in 1..Len(history) :
     /\ history[i].serviceId = serviceId
     /\ t - history[i].timestamp < DedupeWindowMs

\* a scan that leaves the stored state of a service alone when it records its
\* recovery
detectOneKeepingStored(stats, service, t) ==
  LET stored == stats.lastProcessedServices
      detected ==
        /\ service.id \in DOMAIN stored
        /\ wasInBadState(stored[service.id])
        /\ isNowHealthy(service)
        /\ ~recentRemediation(stats.remediationHistory, service.id, t)
  IN IF detected
     THEN recordRemediationAttempt(stats, service.id, TRUE, "detected", t)
     ELSE [stats EXCEPT
             !.lastProcessedServices =
               MapSet(stored, service.id, Observed(service, t))]

\* the body of the forEach of detectSuccessfulRemediations, for one service
detectOne(stats, service, t) ==
  LET stored == stats.lastProcessedServices
      detected ==
        /\ service.id \in DOMAIN stored
        /\ wasInBadState(stored[service.id])
        /\ isNowHealthy(service)
        /\ ~recentRemediation(stats.remediationHistory, service.id, t)
      recorded ==
        IF detected
        THEN recordRemediationAttempt(stats, service.id, TRUE, "detected", t)
        ELSE stats
  IN [recorded EXCEPT
        !.lastProcessedServices = MapSet(stored, service.id, Observed(service, t))]

RECURSIVE detectEach(_, _, _)
\* currentServices.forEach of detectSuccessfulRemediations
detectEach(stats, services, t) ==
  IF services = <<>> THEN stats
  ELSE detectEach(detectOne(stats, Head(services), t), Tail(services), t)

RECURSIVE storeEach(_, _, _)
\* the forEach of the first run: the state of every service is stored
storeEach(stats, services, t) ==
  IF services = <<>> THEN stats
  ELSE storeEach([stats EXCEPT !.lastProcessedServices =
                    MapSet(stats.lastProcessedServices, Head(services).id,
                           Observed(Head(services), t))],
                 Tail(services), t)

\* detectSuccessfulRemediations(currentServices) at the instant t
detectSuccessfulRemediations(stats, services, t) ==
  IF DOMAIN stats.lastProcessedServices = {}
  THEN storeEach(stats, services, t)
  ELSE detectEach(stats, services, t)

\* processServices: activeRemediations is set to the number of services in
\* remediation
withActiveRemediations(stats, services) ==
  [stats EXCEPT !.activeRemediations =
     Cardinality({i \in 1..Len(services) : services[i].remediationInProgress})]

\* a turn into a success that does not test whether the search found a record
markSuccessUnguarded(stats, serviceId) ==
  LET history == stats.remediationHistory
      found == {i \in 1..Len(history) :
                  /\ history[i].serviceId = serviceId
                  /\ ~history[i].success
                  /\ history[i].source = "watchman"}
      flipped ==
        IF found = {} THEN history
        ELSE LET first == CHOOSE i \in found : \A j \in found : i <= j
             IN [history EXCEPT ![first].success = TRUE]
  IN [stats EXCEPT
        !.remediationHistory = flipped,
        !.failedRemediations = stats.failedRemediations - 1,
        !.successfulRemediations = stats.successfulRemediations + 1]

\* processServices: after a successful trigger the newest failed 'watchman'
\* record of the service is turned into a success
markSuccess(stats, serviceId) ==
  LET history == stats.remediationHistory
      found == {i \in 1..Len(history) :
                  /\ history[i].serviceId = serviceId
                  /\ ~history[i].success
                  /\ history[i].source = "watchman"}
  IN IF found = {} THEN stats
     ELSE LET first == CHOOSE i \in found : \A j \in found : i <= j
          IN [stats EXCEPT
                !.remediationHistory[first].success = TRUE,
                !.failedRemediations = stats.failedRemediations - 1,
                !.successfulRemediations = stats.successfulRemediations + 1]

(***************************************************************************)
(* AutoRemediator (services/remediator.js): the backoff tracker.           *)
(***************************************************************************)
\* the value a field holds before it was ever assigned
Undefined == -1

\* a tracker that is born already triggered
NewTrackerStamped(t) ==
  [firstDetected |-> t, lastTriggered |-> t, triggerCount |-> 0,
   lastStatus |-> CRITICAL, lastAttempt |-> Undefined]

NewTracker(t) ==
  [firstDetected |-> t, lastTriggered |-> 0, triggerCount |-> 0,
   lastStatus |-> CRITICAL, lastAttempt |-> Undefined]

\* a backoff that never escalates
currentBackoffFlat(triggerCount) == backoffSchedule[1]

\* a backoff that wraps around the schedule instead of staying at its end
currentBackoffWrap(triggerCount) ==
  backoffSchedule[(triggerCount % Len(backoffSchedule)) + 1]

\* backoffSchedule[Math.min(triggerCount, backoffSchedule.length - 1)]
currentBackoff(triggerCount) ==
  backoffSchedule[Min(triggerCount, Len(backoffSchedule) - 1) + 1]

\* a backoff test that compares milliseconds with minutes
InBackoffMinutes(tracker, t) ==
  t - tracker.lastTriggered < currentBackoff(tracker.triggerCount) \div MsPerMinute

\* the test of the early return: timeSinceLastTrigger < currentBackoff
InBackoff(tracker, t) ==
  t - tracker.lastTriggered < currentBackoff(tracker.triggerCount)

\* Math.ceil((currentBackoff - timeSinceLastTrigger) / 60000)
waitMinutes(tracker, t) ==
  CeilDiv(currentBackoff(tracker.triggerCount) - (t - tracker.lastTriggered),
          MsPerMinute)

\* the tracker map after the has/set of triggerRemediation
WithTracker(trackers, serviceId, t) ==
  IF serviceId \in DOMAIN trackers THEN trackers
  ELSE [id \in DOMAIN trackers \cup {serviceId} |->
          IF id = serviceId THEN NewTracker(t) ELSE trackers[id]]

\* the "Update tracker" block of triggerRemediation
Triggered(tracker, t) ==
  [tracker EXCEPT !.lastTriggered = t,
                  !.triggerCount = tracker.triggerCount + 1,
                  !.lastAttempt = t]

\* a cleanup that keeps only the services critical and awaiting remediation
cleanupAwaitingOnly(trackers, currentServices_) ==
  LET currentCriticalIds ==
        {s.id : s \in {x \in Elems(currentServices_) : IsCriticalAwaiting(x)}}
  IN [id \in DOMAIN trackers \cap currentCriticalIds |-> trackers[id]]

\* cleanupRecoveredServices: the tracker map it leaves
cleanupRecoveredServices(trackers, currentServices_) ==
  LET currentCriticalIds ==
        {s.id : s \in {x \in Elems(currentServices_) : x.status = CRITICAL}}
  IN [id \in DOMAIN trackers \cap currentCriticalIds |-> trackers[id]]

\* no triggerRemediation call was made yet
NoCall ==
  [serviceId |-> "", outcome |-> "none", success |-> FALSE, wait_minutes |-> 0,
   fetched |-> FALSE, called |-> FALSE]

NoFrame == [serviceId |-> "", now |-> 0]

\* fallbackBasicRemediation made no call yet
NoCalls == [fetch |-> "none", post |-> "none"]

\* no service details at hand
NoData ==
  [hasMetrics |-> FALSE, cpu |-> Undefined, memory |-> Undefined,
   error_rate |-> Undefined, latency |-> Undefined]

(***************************************************************************)
(* AutoRemediator.triggerRemediation (services/remediator.js), one action  *)
(* per stretch of synchronous code.  The for-loops that call it            *)
(* (index.js:336, remediator.js:196) and a direct call share these steps.  *)
(***************************************************************************)
\* the call starts: tracker lookup, backoff check, tracker update; the loop of
\* processServices records a failed 'watchman' attempt just before it calls
TriggerBegin ==
  /\ pc = "next"
  /\ queue # <<>>
  /\ LET serviceId == Head(queue)
         tracked == WithTracker(persistentCriticalServices, serviceId, now)
         serviceTracker == tracked[serviceId]
         seen == [serviceId |-> serviceId, outcome |-> "pending",
                  success |-> FALSE, wait_minutes |-> 0,
                  fetched |-> FALSE, called |-> FALSE]
     IN /\ queue' = Tail(queue)
        /\ IF InBackoff(serviceTracker, now)
           THEN /\ persistentCriticalServices' = tracked
                /\ lastCall' = [seen EXCEPT !.outcome = "backoff_period",
                                            !.wait_minutes = waitMinutes(serviceTracker, now)]
                /\ pc' = "next"
                /\ call' = NoFrame
           ELSE /\ persistentCriticalServices' =
                     [tracked EXCEPT ![serviceId] = Triggered(serviceTracker, now)]
                /\ lastCall' = seen
                /\ pc' = "fetching"
                /\ call' = [serviceId |-> serviceId, now |-> now]
        /\ remediationStats' =
             IF caller = "loop"
             THEN recordRemediationAttempt(remediationStats, serviceId, FALSE,
                                           "watchman", now)
             ELSE remediationStats
  /\ UNCHANGED <<clock, loopVars, caller, args, recovered, budgetVars, detectorVars,
                 scans, lifecycleVars, backendVars>>

\* poller.getServiceDetails answers or fails; on an answer the tracker's
\* lastStatus is set and triggerLangflowFlow builds its payload and posts it
FetchDetail ==
  /\ pc = "fetching"
  /\ \E ok \in BOOLEAN, status \in Statuses, hasMetrics \in BOOLEAN :
       IF ~ok
       THEN /\ status = HEALTHY /\ hasMetrics
            /\ lastCall' = [lastCall EXCEPT !.outcome = "error", !.fetched = TRUE]
            /\ pc' = "next"
            /\ call' = NoFrame
            /\ UNCHANGED persistentCriticalServices
       ELSE /\ persistentCriticalServices' =
                 IF call.serviceId \in DOMAIN persistentCriticalServices
                 THEN [persistentCriticalServices EXCEPT
                         ![call.serviceId].lastStatus = status]
                 ELSE persistentCriticalServices
            /\ IF hasMetrics
               THEN /\ lastCall' = [lastCall EXCEPT !.fetched = TRUE, !.called = TRUE]
                    /\ pc' = "calling"
                    /\ call' = call
               ELSE /\ lastCall' = [lastCall EXCEPT !.outcome = "error",
                                                    !.fetched = TRUE]
                    /\ pc' = "next"
                    /\ call' = NoFrame
  /\ UNCHANGED <<clock, loopVars, caller, queue, args, recovered, budgetVars,
                 detectorVars, statsVars, lifecycleVars, backendVars>>

\* a call whose failed post gives the backoff slot back
LangflowReturnRollingBack ==
  /\ pc = "calling"
  /\ \E ok \in BOOLEAN :
       /\ lastCall' = [lastCall EXCEPT
                          !.outcome = IF ok THEN "success" ELSE "error",
                          !.success = ok]
       /\ remediationStats' =
            IF caller = "loop" /\ ok
            THEN markSuccess(remediationStats, call.serviceId)
            ELSE remediationStats
       /\ persistentCriticalServices' =
            IF ok \/ call.serviceId \notin DOMAIN persistentCriticalServices
            THEN persistentCriticalServices
            ELSE [persistentCriticalServices EXCEPT
                    ![call.serviceId].triggerCount = @ - 1]
  /\ pc' = "next"
  /\ call' = NoFrame
  /\ UNCHANGED <<clock, loopVars, caller, queue, args, recovered, budgetVars,
                 detectorVars, scans, lifecycleVars, backendVars>>

\* a call that lets the failure of its post escape to the caller
LangflowReturnThrowing ==
  /\ pc = "calling"
  /\ \E ok \in BOOLEAN :
       /\ lastCall' = [lastCall EXCEPT
                          !.outcome = IF ok THEN "success" ELSE "thrown",
                          !.success = ok]
       /\ remediationStats' =
            IF caller = "loop" /\ ok
            THEN markSuccess(remediationStats, call.serviceId)
            ELSE remediationStats
  /\ pc' = "next"
  /\ call' = NoFrame
  /\ UNCHANGED <<clock, loopVars, caller, queue, args, remediatorVars, budgetVars,
                 detectorVars, scans, lifecycleVars, backendVars>>

\* the post to the workflow engine answers, fails or times out; on an answer
\* the loop of processServices turns its 'watchman' record into a success
LangflowReturn ==
  /\ pc = "calling"
  /\ \E ok \in BOOLEAN :
       /\ lastCall' = [lastCall EXCEPT
                          !.outcome = IF ok THEN "success" ELSE "error",
                          !.success = ok]
       /\ remediationStats' =
            IF caller = "loop" /\ ok
            THEN markSuccess(remediationStats, call.serviceId)
            ELSE remediationStats
  /\ pc' = "next"
  /\ call' = NoFrame
  /\ UNCHANGED <<clock, loopVars, caller, queue, args, remediatorVars, budgetVars,
                 detectorVars, scans, lifecycleVars, backendVars>>

(***************************************************************************)
(* AutoRemediator driven through its methods.                              *)
(***************************************************************************)
\* triggerRemediation(serviceId) called on its own
ApiTrigger ==
  /\ pc = "idle"
  /\ \E serviceId \in {inventory[i] : i \in 1..Len(inventory)} :
       /\ queue' = <<serviceId>>
       /\ caller' = "direct"
       /\ args' = <<>>
  /\ pc' = "next"
  /\ recovered' = {}
  /\ UNCHANGED <<clock, loopVars, call, lastCall, persistentCriticalServices,
                 budgetVars, detectorVars, statsVars, lifecycleVars, backendVars>>

\* the direct call's result is handed to its caller
ApiTriggerEnd ==
  /\ pc = "next" /\ queue = <<>> /\ caller = "direct"
  /\ pc' = "idle"
  /\ lastCall' = NoCall
  /\ UNCHANGED <<clock, loopVars, caller, queue, args, call,
                 remediatorVars, budgetVars, detectorVars, statsVars,
                 lifecycleVars, backendVars>>

\* checkAndTriggerPersistentRemediation(services): the filter and the loop's start
ApiCheckAndTrigger ==
  /\ pc = "idle"
  /\ \E services \in Snapshots(inventory) :
       /\ args' = services
       /\ queue' = IdSeq(FilterSeq(services,
                     {s \in Elems(services) : IsCriticalAwaiting(s)}))
  /\ caller' = "persistent"
  /\ pc' = "next"
  /\ recovered' = {}
  /\ UNCHANGED <<clock, loopVars, call, lastCall, persistentCriticalServices,
                 budgetVars, detectorVars, statsVars, lifecycleVars, backendVars>>

\* checkAndTriggerPersistentRemediation: after the loop, the cleanup
ApiCheckAndTriggerEnd ==
  /\ pc = "next" /\ queue = <<>> /\ caller = "persistent"
  /\ persistentCriticalServices' =
       cleanupRecoveredServices(persistentCriticalServices, args)
  /\ recovered' = DOMAIN persistentCriticalServices \
                     DOMAIN cleanupRecoveredServices(persistentCriticalServices, args)
  /\ pc' = "idle"
  /\ args' = <<>>
  /\ lastCall' = NoCall
  /\ UNCHANGED <<clock, loopVars, caller, queue, call, budgetVars, detectorVars, statsVars,
                 lifecycleVars, backendVars>>

\* time passes: while an await is pending or nothing runs, never inside a
\* stretch of synchronous code
Suspended == pc \in {"idle", "waiting", "polling", "fetching", "calling"}

ApiTick ==
  /\ Suspended
  /\ \E d \in Deltas :
       /\ ticks < MaxTicks
       /\ now' = now + d
       /\ ticks' = ticks + 1
  /\ UNCHANGED <<inventory, loopVars, chainVars, remediatorVars, budgetVars, detectorVars, statsVars,
                 lifecycleVars, backendVars>>

\* time passes, in a run over the whole inventory
FleetTick ==
  /\ Suspended
  /\ \E d \in FleetDeltas :
       /\ ticks < MaxLoopTicks
       /\ now' = now + d
       /\ ticks' = ticks + 1
  /\ UNCHANGED <<inventory, loopVars, chainVars, remediatorVars, budgetVars, detectorVars, statsVars,
                 lifecycleVars, backendVars>>

\* time passes, in a run of the control loop
LoopTick ==
  /\ Suspended
  /\ \E d \in LoopDeltas :
       /\ ticks < MaxLoopTicks
       /\ now' = now + d
       /\ ticks' = ticks + 1
  /\ UNCHANGED <<inventory, loopVars, chainVars, remediatorVars, budgetVars, detectorVars, statsVars,
                 lifecycleVars, backendVars>>

(***************************************************************************)
(* The inventory backend: the Service model and its in-memory services     *)
(* array.  The metrics of a service are kept as the status the thresholds  *)
(* of updateServiceMetrics give them.                                      *)
(***************************************************************************)
NoMetrics == "null"

\* new Service(id, name, initialStatus), with metrics of the given level
NewService(initialStatus, metrics) ==
  [status |-> initialStatus,
   metrics |-> metrics,
   remediationInProgress |-> FALSE,
   awaitingRemediation |-> initialStatus = CRITICAL,
   degradedMetrics |-> IF initialStatus = CRITICAL THEN metrics ELSE NoMetrics]

\* initializeServices(): S1 starts critical, with the metrics it drew, and S2
\* healthy
initializeServices(drawn) ==
  [id \in ServiceIds |->
     IF id = "S1" THEN NewService(CRITICAL, drawn) ELSE NewService(HEALTHY, HEALTHY)]

\* no handler of the backend ran yet
NoRequest == [op |-> "none", id |-> "", code |-> 0]

\* the backend as it starts, with S1 critical by its metrics
FreshBackend == backendServices = initializeServices(CRITICAL)

\* the state the constructors leave, but for the fields a specification seeds
InitCommon ==
  /\ now = StartTime
  /\ ticks = 0
  /\ isRunning = FALSE
  /\ timer = [armed |-> FALSE, due |-> 0, delay |-> 0]
  /\ shownRecovered = {}
  /\ persistentCriticalServices = <<>>
  /\ recovered = {}
  /\ caller = "direct"
  /\ queue = <<>>
  /\ args = <<>>
  /\ call = NoFrame
  /\ lastCall = NoCall
  /\ gate = "idle"
  /\ estimatedTokens = 0
  /\ gateResult = "none"
  /\ issued = 0
  /\ charged = 0
  /\ serviceData = NoData
  /\ action = ""
  /\ fallbackCalls = NoCalls
  /\ detection = NoDetection
  /\ detections = 0
  /\ scans = 0
  /\ inFlight = 0
  /\ pendingTimers = {}
  /\ currentInterval = 0
  /\ handles = 0
  /\ remediationHistory = <<>>
  /\ system_load = "none"
  /\ completions = [id \in ServiceIds |-> 0]
  /\ served = NoRequest

\* no poll was made yet
FreshSnapshots ==
  /\ currentServices = <<>>
  /\ previousState = <<>>

\* the statistics as the constructor of AIWatchman leaves them
FreshStats == remediationStats = NoStats

\* the TokenManager as its constructor leaves it
FreshCounters ==
  /\ dailyTokens = 0
  /\ minuteTokens = 0
  /\ dailyRequests = 0
  /\ minuteRequests = 0
  /\ admissions = 0

\* one service: its tracker through the whole backoff schedule
InitRemediator ==
  /\ InitCommon /\ FreshSnapshots /\ FreshCounters /\ FreshStats /\ FreshBackend
  /\ pc = "idle" /\ inventory = <<"S1">>

\* the whole inventory: several trackers at once
InitFleet ==
  /\ InitCommon /\ FreshSnapshots /\ FreshCounters /\ FreshStats /\ FreshBackend
  /\ pc = "idle" /\ inventory = ServiceOrder

NextRemediator ==
  \/ ApiTrigger
  \/ ApiTriggerEnd
  \/ ApiCheckAndTrigger
  \/ ApiCheckAndTriggerEnd
  \/ TriggerBegin
  \/ FetchDetail
  \/ LangflowReturn
  \/ ApiTick

SpecRemediator == InitRemediator /\ [][NextRemediator]_vars

NextFleet ==
  \/ ApiTrigger
  \/ ApiTriggerEnd
  \/ ApiCheckAndTrigger
  \/ ApiCheckAndTriggerEnd
  \/ TriggerBegin
  \/ FetchDetail
  \/ LangflowReturn
  \/ FleetTick

SpecFleet == InitFleet /\ [][NextFleet]_vars

(***************************************************************************)
(* AIWatchman (index.js): the control loop.                                *)
(***************************************************************************)
NoTimer == [armed |-> FALSE, due |-> 0, delay |-> 0]

\* setTimeout(() => this.startPollingLoop(), delay)
Armed(t, delay) == [armed |-> TRUE, due |-> t + delay, delay |-> delay]

\* start(): isRunning is set and the first cycle begins its poll
Start ==
  /\ pc = "stopped"
  /\ ~isRunning
  /\ isRunning' = TRUE
  /\ pc' = "polling"
  /\ caller' = "loop"
  /\ UNCHANGED <<clock, timer, currentServices, previousState, shownRecovered,
                 queue, args, call, lastCall, remediatorVars, budgetVars, detectorVars, statsVars,
                 lifecycleVars, backendVars>>

\* the timer of the previous cycle expires: startPollingLoop begins its poll
TimerFires ==
  /\ pc = "waiting"
  /\ timer.armed
  /\ now >= timer.due
  /\ isRunning
  /\ timer' = NoTimer
  /\ pc' = "polling"
  /\ UNCHANGED <<clock, isRunning, currentServices, previousState, shownRecovered,
                 caller, queue, args, call, lastCall, remediatorVars, budgetVars,
                 detectorVars, statsVars, lifecycleVars, backendVars>>

\* a cycle that stores the snapshot before it runs the detection on it
PollReturnStoringFirst ==
  /\ pc = "polling"
  /\ caller = "loop"
  /\ \E services \in PollAnswers(inventory) :
       /\ currentServices' = services
       /\ queue' = IdSeq(newCriticalServices(services,
                           storeCurrentState(services, now)))
       /\ previousState' = storeCurrentState(services, now)
       /\ args' = services
       /\ remediationStats' =
            withActiveRemediations(
              detectSuccessfulRemediations(remediationStats, services, now),
              services)
  /\ shownRecovered' =
       {id \in DOMAIN previousState \cap DOMAIN persistentCriticalServices :
          previousState[id].status # CRITICAL}
  /\ pc' = "next"
  /\ UNCHANGED <<clock, isRunning, timer, caller, call, lastCall, remediatorVars,
                 budgetVars, detectorVars, scans, lifecycleVars, backendVars>>

\* pollServices answered: the snapshot is kept, the recoveries it shows are
\* recorded, processServices diffs it against the previous state, stores it,
\* counts the active remediations and starts its loop over the newly critical
PollReturn ==
  /\ pc = "polling"
  /\ caller = "loop"
  /\ \E services \in PollAnswers(inventory) :
       /\ currentServices' = services
       /\ queue' = IdSeq(newCriticalServices(services, previousState))
       /\ previousState' = storeCurrentState(services, now)
       /\ args' = services
       /\ remediationStats' =
            withActiveRemediations(
              detectSuccessfulRemediations(remediationStats, services, now),
              services)
  /\ shownRecovered' =
       {id \in DOMAIN previousState \cap DOMAIN persistentCriticalServices :
          previousState[id].status # CRITICAL}
  /\ pc' = "next"
  /\ UNCHANGED <<clock, isRunning, timer, caller, call, lastCall, remediatorVars,
                 budgetVars, detectorVars, scans, lifecycleVars, backendVars>>

\* a failed poll that retries after the interval of the last snapshot
PollFailAdaptive ==
  /\ pc = "polling"
  /\ caller = "loop"
  /\ timer' = Armed(now, calculatePollingInterval(currentServices) * 1000)
  /\ pc' = "waiting"
  /\ UNCHANGED <<clock, isRunning, currentServices, previousState, shownRecovered,
                 caller, queue, args, call, lastCall, remediatorVars, budgetVars,
                 detectorVars, statsVars, lifecycleVars, backendVars>>

\* pollServices threw: the cycle is over and the retry is scheduled
PollFail ==
  /\ pc = "polling"
  /\ caller = "loop"
  /\ timer' = Armed(now, RetryDelayMs)
  /\ pc' = "waiting"
  /\ UNCHANGED <<clock, isRunning, currentServices, previousState, shownRecovered,
                 caller, queue, args, call, lastCall, remediatorVars, budgetVars,
                 detectorVars, statsVars, lifecycleVars, backendVars>>

\* processServices returned: the next poll is scheduled
CycleEnd ==
  /\ pc = "next" /\ queue = <<>> /\ caller = "loop"
  /\ timer' = Armed(now, calculatePollingInterval(args) * 1000)
  /\ pc' = "waiting"
  /\ args' = <<>>
  /\ lastCall' = NoCall
  /\ UNCHANGED <<clock, isRunning, currentServices, previousState, shownRecovered,
                 caller, queue, call, remediatorVars, budgetVars, detectorVars, statsVars,
                 lifecycleVars, backendVars>>

InitLoop ==
  /\ InitCommon /\ FreshSnapshots /\ FreshCounters /\ FreshStats /\ FreshBackend
  /\ pc = "stopped" /\ inventory = ServiceOrder

Next ==
  \/ Start
  \/ TimerFires
  \/ PollReturn
  \/ PollFail
  \/ CycleEnd
  \/ TriggerBegin
  \/ FetchDetail
  \/ LangflowReturn
  \/ LoopTick

Spec == InitLoop /\ [][Next]_vars

(***************************************************************************)
(* The detector on its own: detectCriticalChanges called by a direct       *)
(* caller on a pair of a snapshot and a stored previous state.             *)
(***************************************************************************)
\* detectCriticalChanges(currentServices, poller.getPreviousState())
Detect ==
  /\ detections < MaxDetections
  /\ detections' = detections + 1
  /\ detection' = detectCriticalChanges(currentServices, previousState, now)
  /\ previousState' = previousAfterDetect(currentServices, previousState, now)
  /\ UNCHANGED <<clock, isRunning, timer, currentServices, shownRecovered, chainVars,
                 remediatorVars, budgetVars, statsVars,
                 lifecycleVars, backendVars, system_load>>

\* any snapshot against any stored previous state
InitDetector ==
  /\ InitCommon
  /\ FreshCounters
  /\ FreshStats /\ FreshBackend
  /\ pc = "idle"
  /\ inventory = ServiceOrder
  /\ \E current \in Snapshots(ServiceOrder), stored \in Snapshots(ServiceOrder) :
       /\ currentServices = current
       /\ previousState = storeCurrentState(stored, StartTime)

NextDetector == Detect

SpecDetector == InitDetector /\ [][NextDetector]_vars

(***************************************************************************)
(* TokenManager (services/token_manager.js) and the budget-gated           *)
(* AutoRemediator.triggerLangflowWorkflow that consults it.                *)
(***************************************************************************)
\* the prompts `Critical service: ${serviceId}` of services with ids of several
\* lengths: the number of whitespace-separated words and of characters
Prompts ==
  {[words |-> 3, chars |-> 20],
   [words |-> 3, chars |-> 18889],
   [words |-> 3, chars |-> 37789],
   [words |-> 3, chars |-> 37790]}

\* Math.ceil((words + (chars / 3.5)) / 2)
estimateTokens(prompt) == CeilDiv(7 * prompt.words + 2 * prompt.chars, 14)

\* an admission check against the nominal ceilings, without the safety buffer
canMakeRequestNoBuffer(tokens) ==
  /\ ~(dailyTokens + tokens > DailyTokenLimit)
  /\ ~(minuteTokens + tokens > MinuteTokenLimit)
  /\ ~(dailyRequests + 1 > DailyRequestLimit)
  /\ ~(minuteRequests + 1 > MinuteRequestLimit)

\* an admission check that forgets the request counters
canMakeRequestTokensOnly(tokens) ==
  /\ ~(dailyTokens + tokens > DailyTokenBudget)
  /\ ~(minuteTokens + tokens > MinuteTokenBudget)

\* canMakeRequest(estimatedTokens)
canMakeRequest(tokens) ==
  /\ ~(dailyTokens + tokens > DailyTokenBudget)
  /\ ~(minuteTokens + tokens > MinuteTokenBudget)
  /\ ~(dailyRequests + 1 > DailyRequestBudget)
  /\ ~(minuteRequests + 1 > MinuteRequestBudget)

\* recordRequest(tokens)
recordRequest(tokens) ==
  /\ dailyTokens' = dailyTokens + tokens
  /\ minuteTokens' = minuteTokens + tokens
  /\ dailyRequests' = dailyRequests + 1
  /\ minuteRequests' = minuteRequests + 1

otherVars ==
  <<clock, loopVars, chainVars, remediatorVars, detectorVars, statsVars,
    lifecycleVars, backendVars>>

\* what triggerRemediation returns for an outcome of triggerLangflowWorkflow:
\* its result, or the error it threw turned into {success: false, error}
triggerRemediationReturns(outcome) ==
  IF outcome = "thrown" THEN "error" ELSE outcome

\* a workflow trigger that throws when the admission check denies
WorkflowBeginRejecting ==
  /\ gate = "idle"
  /\ issued < MaxRequests
  /\ issued' = issued + 1
  /\ \E prompt \in Prompts :
       /\ estimatedTokens' = estimateTokens(prompt)
       /\ gate' = IF canMakeRequest(estimateTokens(prompt)) THEN "posting"
                  ELSE "idle"
       /\ gateResult' = IF canMakeRequest(estimateTokens(prompt)) THEN "pending"
                        ELSE "thrown"
       /\ admissions' = IF canMakeRequest(estimateTokens(prompt)) THEN admissions + 1
                        ELSE admissions
  /\ charged' = 0
  /\ action' = ""
  /\ fallbackCalls' = NoCalls
  /\ UNCHANGED <<counters, serviceData, otherVars, remediationHistory>>

\* triggerLangflowWorkflow(serviceId) starts: the estimate, the admission check,
\* then the post to the workflow engine or the fallback
WorkflowBegin ==
  /\ gate = "idle"
  /\ issued < MaxRequests
  /\ issued' = issued + 1
  /\ \E prompt \in Prompts :
       /\ estimatedTokens' = estimateTokens(prompt)
       /\ gate' = IF canMakeRequest(estimateTokens(prompt)) THEN "posting"
                  ELSE "fallback"
       /\ admissions' = IF canMakeRequest(estimateTokens(prompt)) THEN admissions + 1
                        ELSE admissions
  /\ gateResult' = "pending"
  /\ charged' = 0
  /\ action' = ""
  /\ fallbackCalls' = NoCalls
  /\ UNCHANGED <<counters, serviceData, otherVars, remediationHistory>>

\* the post answered: the usage is recorded; or it failed: a 429 goes to the
\* fallback, any other failure is thrown to the caller
PostReturn ==
  /\ gate = "posting"
  /\ \E answer \in {"ok", "rate_limited", "failed"} :
       \/ /\ answer = "ok"
          /\ recordRequest(estimatedTokens)
          /\ charged' = charged + 1
          /\ gate' = "idle"
          /\ gateResult' = "ai"
          /\ estimatedTokens' = 0
       \/ /\ answer = "rate_limited"
          /\ gate' = "fallback"
          /\ UNCHANGED <<counters, gateResult, estimatedTokens, charged>>
       \/ /\ answer = "failed"
          /\ gate' = "idle"
          /\ gateResult' = "thrown"
          /\ estimatedTokens' = 0
          /\ UNCHANGED <<counters, charged>>
  /\ UNCHANGED <<issued, admissions, serviceData, action, fallbackCalls, otherVars,
                 remediationHistory>>

\* the fallback's thresholds
CpuThreshold == 85
MemoryThreshold == 85
ErrorRateThreshold == 10
LatencyThreshold == 800

\* serviceData.metrics?.field > threshold: false when the metrics or the field
\* are missing
Exceeds(value, threshold) == value # Undefined /\ value > threshold

\* a rule table that tests the memory before the cpu
fallbackActionMemoryFirst(data) ==
  IF data.hasMetrics /\ Exceeds(data.memory, MemoryThreshold) THEN "scale_memory"
  ELSE IF data.hasMetrics /\ Exceeds(data.cpu, CpuThreshold) THEN "restart_service"
  ELSE IF data.hasMetrics /\ Exceeds(data.error_rate, ErrorRateThreshold)
       THEN "kill_connections"
  ELSE IF data.hasMetrics /\ Exceeds(data.latency, LatencyThreshold)
       THEN "scale_instances"
  ELSE "restart_service"

\* the rule-based choice of fallbackBasicRemediation
fallbackAction(data) ==
  IF data.hasMetrics /\ Exceeds(data.cpu, CpuThreshold) THEN "restart_service"
  ELSE IF data.hasMetrics /\ Exceeds(data.memory, MemoryThreshold) THEN "scale_memory"
  ELSE IF data.hasMetrics /\ Exceeds(data.error_rate, ErrorRateThreshold)
       THEN "kill_connections"
  ELSE IF data.hasMetrics /\ Exceeds(data.latency, LatencyThreshold)
       THEN "scale_instances"
  ELSE "restart_service"

\* what GET /api/services/:id/metrics can answer: each metric missing, at its
\* threshold or above it; or no metrics at all
ServiceDetails ==
  {NoData} \cup
  [hasMetrics : {TRUE},
   cpu : {Undefined, CpuThreshold, CpuThreshold + 1},
   memory : {Undefined, MemoryThreshold, MemoryThreshold + 1},
   error_rate : {Undefined, ErrorRateThreshold, ErrorRateThreshold + 1},
   latency : {Undefined, LatencyThreshold, LatencyThreshold + 1}]

\* a fallback that reports success without waiting for the answer to its post
fallbackResultOptimistic(fetchOk, postOk) ==
  IF fetchOk THEN "fallback" ELSE "fallback_failed"

\* what fallbackBasicRemediation returns: {success: true, fallback: true, action}
\* from its try block, {success: false, fallback: true} from its catch block
fallbackResult(fetchOk, postOk) ==
  IF fetchOk /\ postOk THEN "fallback" ELSE "fallback_failed"

\* fallbackBasicRemediation: getServiceDetails answered and the action is chosen
\* and posted to the backend, or it threw and the failure is returned
FallbackFetch ==
  /\ gate = "fallback"
  /\ \/ \E data \in ServiceDetails :
          /\ serviceData' = data
          /\ action' = fallbackAction(data)
          /\ gate' = "remediating"
          /\ fallbackCalls' = [fallbackCalls EXCEPT !.fetch = "ok"]
          /\ UNCHANGED <<gateResult, estimatedTokens>>
     \/ /\ gateResult' = fallbackResult(FALSE, FALSE)
        /\ gate' = "idle"
        /\ estimatedTokens' = 0
        /\ fallbackCalls' = [fallbackCalls EXCEPT !.fetch = "failed"]
        /\ UNCHANGED <<serviceData, action>>
  /\ UNCHANGED <<counters, issued, admissions, charged, otherVars, remediationHistory>>

\* fallbackBasicRemediation: the post to the backend's remediate endpoint
\* answered, or it threw and the failure is returned
FallbackPost ==
  /\ gate = "remediating"
  /\ \E ok \in BOOLEAN :
       /\ gateResult' = fallbackResult(TRUE, ok)
       /\ action' = IF fallbackResult(TRUE, ok) = "fallback" THEN action ELSE ""
       /\ fallbackCalls' =
            [fallbackCalls EXCEPT !.post = IF ok THEN "ok" ELSE "failed"]
  /\ gate' = "idle"
  /\ estimatedTokens' = 0
  /\ serviceData' = NoData
  /\ UNCHANGED <<counters, issued, admissions, charged, otherVars, remediationHistory>>

\* a minute reset that zeroes the daily counters as well
MinuteResetAll ==
  /\ minuteTokens' = 0
  /\ minuteRequests' = 0
  /\ dailyTokens' = 0
  /\ dailyRequests' = 0
  /\ admissions' = 0
  /\ UNCHANGED <<gate, estimatedTokens, gateResult, issued, charged, serviceData,
                 action, fallbackCalls, otherVars, remediationHistory>>

\* the 60-second interval of resetIntervals fires
MinuteReset ==
  /\ minuteTokens' = 0
  /\ minuteRequests' = 0
  /\ admissions' = 0
  /\ UNCHANGED <<dailyTokens, dailyRequests, gate, estimatedTokens, gateResult,
                 issued, charged, serviceData, action, fallbackCalls, otherVars,
                 remediationHistory>>

\* the 24-hour interval of resetIntervals fires
DailyReset ==
  /\ dailyTokens' = 0
  /\ dailyRequests' = 0
  /\ UNCHANGED <<minuteTokens, minuteRequests, gate, estimatedTokens, gateResult,
                 issued, admissions, charged, serviceData, action, fallbackCalls,
                 otherVars, remediationHistory>>

\* usages the TokenManager can have reached when a run starts: none, and
\* usages close to each of the four ceilings
CounterSeeds ==
  {[dailyTokens |-> 0, minuteTokens |-> 0, dailyRequests |-> 0, minuteRequests |-> 0],
   [dailyTokens |-> 5390, minuteTokens |-> 5390,
    dailyRequests |-> 10, minuteRequests |-> 10],
   [dailyTokens |-> 890, minuteTokens |-> 890,
    dailyRequests |-> 178, minuteRequests |-> 178],
   [dailyTokens |-> 449990, minuteTokens |-> 0,
    dailyRequests |-> 9000, minuteRequests |-> 0],
   [dailyTokens |-> 89990, minuteTokens |-> 0,
    dailyRequests |-> 17998, minuteRequests |-> 0],
   [dailyTokens |-> 447300, minuteTokens |-> 2695,
    dailyRequests |-> 17999, minuteRequests |-> 179]}

InitBudget ==
  /\ InitCommon
  /\ FreshSnapshots
  /\ FreshStats /\ FreshBackend
  /\ pc = "idle"
  /\ inventory = <<"S1">>
  /\ \E seed \in CounterSeeds :
       /\ dailyTokens = seed.dailyTokens
       /\ minuteTokens = seed.minuteTokens
       /\ dailyRequests = seed.dailyRequests
       /\ minuteRequests = seed.minuteRequests
       /\ admissions = seed.minuteRequests

NextBudget ==
  \/ WorkflowBegin
  \/ PostReturn
  \/ FallbackFetch
  \/ FallbackPost
  \/ MinuteReset
  \/ DailyReset

SpecBudget == InitBudget /\ [][NextBudget]_vars

(***************************************************************************)
(* The budget-gated AutoRemediator.triggerRemediation: the two-minute gate *)
(* on the attempts of a service, in front of triggerLangflowWorkflow.      *)
(***************************************************************************)
\* the clock advances by the gap or by a millisecond less
GatedDeltas == {MinRetryGapMs - 1, MinRetryGapMs}

\* a gate that also turns away a call made exactly two minutes after the last
tooSoonInclusive(history, serviceId, t) ==
  /\ serviceId \in DOMAIN history
  /\ t - history[serviceId].timestamp <= MinRetryGapMs

\* remediationHistory.has(serviceId) && timeSinceLastAttempt < 120000
tooSoon(history, serviceId, t) ==
  /\ serviceId \in DOMAIN history
  /\ t - history[serviceId].timestamp < MinRetryGapMs

\* remediationHistory.set(serviceId, {timestamp, attempts: (attempts || 0) + 1})
attempted(history, serviceId, t) ==
  MapSet(history, serviceId,
         [timestamp |-> t,
          attempts |-> (IF serviceId \in DOMAIN history
                        THEN history[serviceId].attempts ELSE 0) + 1])

\* triggerRemediation(serviceId) up to its first await: the gate, the attempt
\* entry, then the start of triggerLangflowWorkflow
GatedTrigger ==
  /\ gate = "idle"
  /\ \E serviceId \in ServiceIds :
       LET seen == [NoCall EXCEPT !.serviceId = serviceId]
       IN IF tooSoon(remediationHistory, serviceId, now)
          THEN /\ lastCall' = [seen EXCEPT !.outcome = "too_soon"]
               /\ UNCHANGED budgetVars
          ELSE /\ issued < MaxRequests
               /\ lastCall' = [seen EXCEPT !.outcome = "pending"]
               /\ remediationHistory' = attempted(remediationHistory, serviceId, now)
               /\ issued' = issued + 1
               /\ \E prompt \in Prompts :
                    /\ estimatedTokens' = estimateTokens(prompt)
                    /\ gate' = IF canMakeRequest(estimateTokens(prompt))
                               THEN "posting" ELSE "fallback"
                    /\ admissions' = IF canMakeRequest(estimateTokens(prompt))
                                     THEN admissions + 1 ELSE admissions
               /\ gateResult' = "pending"
               /\ charged' = 0
               /\ action' = ""
               /\ fallbackCalls' = NoCalls
               /\ UNCHANGED <<counters, serviceData>>
  /\ UNCHANGED <<clock, loopVars, pc, caller, queue, args, call, remediatorVars,
                 detectorVars, statsVars, lifecycleVars, backendVars>>

\* time passes, in a run of the budget-gated triggerRemediation
GatedTick ==
  /\ \E d \in GatedDeltas :
       /\ ticks < MaxGatedTicks
       /\ now' = now + d
       /\ ticks' = ticks + 1
  /\ UNCHANGED <<inventory, loopVars, chainVars, remediatorVars, budgetVars,
                 detectorVars, statsVars, lifecycleVars, backendVars>>

InitGated ==
  /\ InitCommon /\ FreshSnapshots /\ FreshCounters /\ FreshStats /\ FreshBackend
  /\ pc = "idle" /\ inventory = ServiceOrder

NextGated ==
  \/ GatedTrigger
  \/ PostReturn
  \/ FallbackFetch
  \/ FallbackPost
  \/ GatedTick

SpecGated == InitGated /\ [][NextGated]_vars

(***************************************************************************)
(* The status server of AIWatchman (index.js): the handlers that write the *)
(* statistics.                                                             *)
(***************************************************************************)
\* the outcomes the requests of a run report: either one in the first requests,
\* then a failure and a success in turn
ReportedOutcomes(n) == IF n < VariedRecords THEN BOOLEAN ELSE {n % 2 = 1}

\* POST /record-remediation with a serviceId and a serviceName
PostRecordRemediation ==
  /\ remediationStats.totalAttempts < MaxRecords
  /\ \E serviceId \in {inventory[i] : i \in 1..Len(inventory)},
        success \in ReportedOutcomes(remediationStats.totalAttempts) :
       remediationStats' =
         recordRemediationAttempt(remediationStats, serviceId, success, "manual", now)
  /\ UNCHANGED <<clock, loopVars, chainVars, remediatorVars, budgetVars,
                 detectorVars, scans, lifecycleVars, backendVars>>

\* POST /reset-stats
PostResetStats ==
  /\ remediationStats' = NoStats
  /\ UNCHANGED <<clock, loopVars, chainVars, remediatorVars, budgetVars,
                 detectorVars, scans, lifecycleVars, backendVars>>

InitLog ==
  /\ InitCommon /\ FreshSnapshots /\ FreshCounters /\ FreshStats /\ FreshBackend
  /\ pc = "idle" /\ inventory = <<"S1">>

NextLog == PostRecordRemediation \/ PostResetStats

SpecLog == InitLog /\ [][NextLog]_vars

(***************************************************************************)
(* The statistics on their own: detectSuccessfulRemediations called by a   *)
(* direct caller on a snapshot, with any stored state and a short log.     *)
(***************************************************************************)
\* the amounts by which the clock advances between two calls
StatDeltas == {10000, DedupeWindowMs}

\* detectSuccessfulRemediations(services)
DetectRecoveries ==
  /\ pc = "idle"
  /\ scans < MaxScans
  /\ scans' = scans + 1
  /\ \E services \in Snapshots(inventory) :
       /\ args' = services
       /\ remediationStats' =
            detectSuccessfulRemediations(remediationStats, services, now)
  /\ UNCHANGED <<clock, loopVars, pc, caller, queue, call, lastCall, remediatorVars,
                 budgetVars, detectorVars, lifecycleVars, backendVars>>

\* time passes between two calls
StatTick ==
  /\ pc = "idle"
  /\ \E d \in StatDeltas :
       /\ ticks < MaxStatTicks
       /\ now' = now + d
       /\ ticks' = ticks + 1
  /\ UNCHANGED <<inventory, loopVars, chainVars, remediatorVars, budgetVars,
                 detectorVars, statsVars, lifecycleVars, backendVars>>

\* the logs a run starts with: empty, or one record just written
LogSeeds(stats) ==
  {stats} \cup
  {recordRemediationAttempt(stats, id, FALSE, source, StartTime) :
     id \in ServiceIds, source \in {"watchman", "manual"}}

\* one service, with any stored state, the empty one of the first run included;
\* the log may hold a record of another service
InitStats ==
  /\ InitCommon /\ FreshSnapshots /\ FreshCounters /\ FreshBackend
  /\ pc = "idle"
  /\ inventory = <<"S1">>
  /\ \E stored \in Snapshots(<<"S1">>) :
       remediationStats \in LogSeeds(storeEach(NoStats, stored, StartTime))

NextStats == DetectRecoveries \/ StatTick

SpecStats == InitStats /\ [][NextStats]_vars

(***************************************************************************)
(* AIWatchman.start, stop and startPollingLoop (index.js) called in any    *)
(* order: how many cycles are in flight and how many timers are pending.   *)
(* What a cycle does with its snapshot is in the control loop above.       *)
(***************************************************************************)
\* start(): nothing when already running; else isRunning is set and
\* startPollingLoop begins its poll
StartCalled ==
  /\ pc = "stopped"
  /\ inFlight < MaxInFlight
  /\ IF isRunning
     THEN UNCHANGED <<isRunning, inFlight>>
     ELSE /\ isRunning' = TRUE
          /\ inFlight' = inFlight + 1
  /\ UNCHANGED <<clock, timer, currentServices, previousState, shownRecovered,
                 chainVars, remediatorVars, budgetVars, detectorVars, statsVars,
                 pendingTimers, currentInterval, handles, backendVars>>

\* stop(): the timer that currentInterval names is cleared, isRunning is reset
StopCalled ==
  /\ pc = "stopped"
  /\ pendingTimers' = pendingTimers \ {currentInterval}
  /\ isRunning' = FALSE
  /\ UNCHANGED <<clock, timer, currentServices, previousState, shownRecovered,
                 chainVars, remediatorVars, budgetVars, detectorVars, statsVars,
                 inFlight, currentInterval, handles, backendVars>>

\* a pending timer expires: startPollingLoop returns at once when the service
\* is not running, else it begins its poll
TimerExpires ==
  /\ pc = "stopped"
  /\ inFlight < MaxInFlight
  /\ \E handle \in pendingTimers : pendingTimers' = pendingTimers \ {handle}
  /\ inFlight' = IF isRunning THEN inFlight + 1 ELSE inFlight
  /\ UNCHANGED <<clock, loopVars, chainVars, remediatorVars, budgetVars,
                 detectorVars, statsVars, currentInterval, handles, backendVars>>

\* a cycle in flight reaches its setTimeout, after processServices or in the
\* catch of a failed poll
CycleSchedules ==
  /\ pc = "stopped"
  /\ inFlight > 0
  /\ handles < MaxHandles
  /\ handles' = handles + 1
  /\ pendingTimers' = pendingTimers \cup {handles + 1}
  /\ currentInterval' = handles + 1
  /\ inFlight' = inFlight - 1
  /\ UNCHANGED <<clock, loopVars, chainVars, remediatorVars, budgetVars,
                 detectorVars, statsVars, backendVars>>

InitLifecycle ==
  /\ InitCommon /\ FreshSnapshots /\ FreshCounters /\ FreshStats /\ FreshBackend
  /\ pc = "stopped" /\ inventory = ServiceOrder

NextLifecycle == StartCalled \/ StopCalled \/ TimerExpires \/ CycleSchedules

SpecLifecycle == InitLifecycle /\ [][NextLifecycle]_vars

(***************************************************************************)
(* The first cycle of the control loop of AIWatchman, with POST            *)
(* /record-remediation requests handled by the status server while a       *)
(* triggerRemediation call of processServices awaits its detail fetch or   *)
(* its post.                                                               *)
(***************************************************************************)
\* POST /record-remediation handled between the start of a call of the loop
\* and its return
RecordWhileAwaiting ==
  /\ caller = "loop"
  /\ pc \in {"fetching", "calling"}
  /\ PostRecordRemediation

InitAwait ==
  /\ InitCommon /\ FreshSnapshots /\ FreshCounters /\ FreshStats /\ FreshBackend
  /\ pc = "stopped" /\ inventory = <<"S1">>

NextAwait ==
  \/ Start
  \/ PollReturn
  \/ PollFail
  \/ CycleEnd
  \/ TriggerBegin
  \/ FetchDetail
  \/ LangflowReturn
  \/ RecordWhileAwaiting

SpecAwait == InitAwait /\ [][NextAwait]_vars

(***************************************************************************)
(* The control loop of AIWatchman with the status server: POST             *)
(* /record-remediation and POST /reset-stats are handled at any await of   *)
(* the loop and between its cycles.                                        *)
(***************************************************************************)
\* POST /record-remediation at any point of a run of the loop
RecordAnytime ==
  /\ remediationStats.totalAttempts < MaxManual
  /\ PostRecordRemediation

InitServer ==
  /\ InitCommon /\ FreshSnapshots /\ FreshCounters /\ FreshStats /\ FreshBackend
  /\ pc = "stopped" /\ inventory = <<"S1">>

NextServer ==
  \/ Start
  \/ TimerFires
  \/ PollReturn
  \/ PollFail
  \/ CycleEnd
  \/ TriggerBegin
  \/ FetchDetail
  \/ LangflowReturn
  \/ LoopTick
  \/ RecordAnytime
  \/ PostResetStats

SpecServer == InitServer /\ [][NextServer]_vars

(***************************************************************************)
(* AIWatchman.calculateSystemLoad (index.js), as GET /remediation-stats    *)
(* calls it on the last polled snapshot.                                   *)
(***************************************************************************)
\* calculateSystemLoad(): the percentages are compared without rounding
calculateSystemLoad(services) ==
  IF Len(services) = 0 THEN "Unknown"
  ELSE LET criticalCount ==
             Cardinality({i \in 1..Len(services) : IsCriticalAwaiting(services[i])})
           warningCount ==
             Cardinality({i \in 1..Len(services) : services[i].status = WARNING})
           totalServices == Len(services)
       IN IF criticalCount * 100 > 30 * totalServices THEN "Critical"
          ELSE IF \/ criticalCount * 100 > 15 * totalServices
                  \/ warningCount * 100 > 40 * totalServices THEN "High"
          ELSE IF \/ criticalCount * 100 > 5 * totalServices
                  \/ warningCount * 100 > 20 * totalServices THEN "Medium"
          ELSE "Low"

\* a snapshot that lists, in this order, the given numbers of critical services
\* awaiting remediation, of critical services in remediation, of services with
\* a warning and of healthy services
Fleet(awaiting, remediating, warning, healthy) ==
  [i \in 1..(awaiting + remediating + warning + healthy) |->
     [id |-> "S" \o ToString(i),
      status |-> IF i <= awaiting + remediating THEN CRITICAL
                 ELSE IF i <= awaiting + remediating + warning THEN WARNING
                 ELSE HEALTHY,
      awaitingRemediation |-> i <= awaiting,
      remediationInProgress |-> awaiting < i /\ i <= awaiting + remediating]]

\* GET /remediation-stats
GetRemediationStats ==
  /\ system_load' = calculateSystemLoad(currentServices)
  /\ UNCHANGED <<clock, loopVars, chainVars, remediatorVars, budgetVars, detection,
                 detections, statsVars, lifecycleVars, backendVars>>

\* the snapshots of up to MaxFleet services the last poll can have stored, and
\* none before the first poll
InitLoad ==
  /\ InitCommon /\ FreshCounters /\ FreshStats /\ FreshBackend
  /\ pc = "idle" /\ inventory = ServiceOrder
  /\ previousState = <<>>
  /\ \E awaiting, remediating, warning, healthy \in 0..MaxFleet :
       /\ awaiting + remediating + warning + healthy <= MaxFleet
       /\ currentServices = Fleet(awaiting, remediating, warning, healthy)

NextLoad == GetRemediationStats

SpecLoad == InitLoad /\ [][NextLoad]_vars

(***************************************************************************)
(* The inventory backend: the metrics simulation, the routes that write    *)
(* the services and the completion of a remediation.                       *)
(***************************************************************************)
\* the state of the watchman service, which the backend does not touch
watchmanVars ==
  <<clock, loopVars, chainVars, remediatorVars, budgetVars, detectorVars, statsVars,
    lifecycleVars>>

\* the levels of the metrics, in rising order
Rank(level) == IF level = HEALTHY THEN 0 ELSE IF level = WARNING THEN 1 ELSE 2

\* Service.updateStatus(newStatus)
updateStatus(service, newStatus) ==
  IF service.status = newStatus THEN service
  ELSE IF newStatus = CRITICAL
       THEN [service EXCEPT !.awaitingRemediation = TRUE,
                            !.degradedMetrics = service.metrics,
                            !.status = newStatus]
  ELSE IF newStatus = HEALTHY
       THEN [service EXCEPT !.awaitingRemediation = FALSE,
                            !.degradedMetrics = NoMetrics,
                            !.status = newStatus]
  ELSE [service EXCEPT !.status = newStatus]

\* a simulation that skips only the critical services awaiting remediation
frozenAwaitingOnly(service) ==
  service.status = CRITICAL /\ service.awaitingRemediation

\* updateServiceMetrics: the services it skips
frozen(service) ==
  \/ service.status = CRITICAL /\ service.awaitingRemediation
  \/ service.remediationInProgress

\* the body of the forEach of updateServiceMetrics: the metrics fluctuate to a
\* level and the status follows it
updateOne(service, level) ==
  IF frozen(service) THEN service
  ELSE updateStatus([service EXCEPT !.metrics = level], level)

\* the 5-second interval of startMetricsSimulation fires
UpdateServiceMetrics ==
  /\ \E levels \in [ServiceIds -> Statuses] :
       backendServices' =
         [id \in ServiceIds |-> updateOne(backendServices[id], levels[id])]
  /\ served' = [op |-> "updateServiceMetrics", id |-> "", code |-> 0]
  /\ UNCHANGED <<completions, watchmanVars>>

\* POST /services/:id/simulate-load: 409 for a service that awaits remediation
\* or is being remediated; else the metrics are spiked and the status becomes
\* critical when cpu or error_rate passed their limit, warning otherwise
SimulateLoad ==
  /\ \E id \in ServiceIds :
       LET service == backendServices[id]
       IN IF service.awaitingRemediation \/ service.remediationInProgress
          THEN /\ served' = [op |-> "simulate-load", id |-> id, code |-> 409]
               /\ UNCHANGED backendServices
          ELSE \E level \in Statuses, spiked \in BOOLEAN :
                 /\ Rank(level) >= Rank(service.metrics)
                 /\ spiked => level = CRITICAL
                 /\ backendServices' =
                      [backendServices EXCEPT ![id] =
                         updateStatus([service EXCEPT !.metrics = level],
                                      IF spiked THEN CRITICAL ELSE WARNING)]
                 /\ served' = [op |-> "simulate-load", id |-> id, code |-> 200]
  /\ UNCHANGED <<completions, watchmanVars>>

\* POST /services/:id/remediate up to the setTimeout of remediateService: 409
\* for a service that needs no remediation or is being remediated, 400 for an
\* unknown action; else the flags are set and the completion is scheduled
Remediate ==
  /\ \E id \in ServiceIds, known \in BOOLEAN :
       LET service == backendServices[id]
       IN IF \/ service.status # CRITICAL /\ ~service.awaitingRemediation
             \/ service.remediationInProgress
          THEN /\ known
               /\ served' = [op |-> "remediate", id |-> id, code |-> 409]
               /\ UNCHANGED <<backendServices, completions>>
          ELSE IF ~known
          THEN /\ served' = [op |-> "remediate", id |-> id, code |-> 400]
               /\ UNCHANGED <<backendServices, completions>>
          ELSE /\ completions[id] < MaxCompletions
               /\ backendServices' =
                    [backendServices EXCEPT ![id].remediationInProgress = TRUE,
                                            ![id].awaitingRemediation = FALSE]
               /\ completions' = [completions EXCEPT ![id] = @ + 1]
               /\ served' = [op |-> "remediate", id |-> id, code |-> 0]
  /\ UNCHANGED <<watchmanVars>>

\* the setTimeout callback of remediateService: the remediation succeeded or
\* failed, and POST /services/:id/remediate answers
Complete ==
  /\ \E id \in ServiceIds, success \in BOOLEAN :
       LET service == backendServices[id]
       IN /\ completions[id] > 0
          /\ completions' = [completions EXCEPT ![id] = @ - 1]
          /\ IF success
             THEN backendServices' =
                    [backendServices EXCEPT ![id] =
                       [service EXCEPT !.metrics = HEALTHY,
                                       !.status = HEALTHY,
                                       !.degradedMetrics = NoMetrics,
                                       !.remediationInProgress = FALSE]]
             ELSE \E level \in Statuses :
                    /\ IF service.degradedMetrics = NoMetrics
                       THEN level = service.metrics
                       ELSE /\ Rank(level) >= Rank(service.degradedMetrics)
                            /\ Rank(level) >= Rank(WARNING)
                    /\ backendServices' =
                         [backendServices EXCEPT ![id] =
                            [service EXCEPT !.metrics = level,
                                            !.status = CRITICAL,
                                            !.awaitingRemediation = TRUE,
                                            !.remediationInProgress = FALSE]]
          /\ served' = [op |-> "completion", id |-> id, code |-> 200]
  /\ UNCHANGED <<watchmanVars>>

\* POST /services/reset: resetAllServices()
ResetAll ==
  /\ backendServices' =
       [id \in ServiceIds |->
          [status |-> HEALTHY, metrics |-> HEALTHY,
           remediationInProgress |-> FALSE, awaitingRemediation |-> FALSE,
           degradedMetrics |-> NoMetrics]]
  /\ served' = [op |-> "reset", id |-> "", code |-> 200]
  /\ UNCHANGED <<completions, watchmanVars>>

InitBackend ==
  /\ InitCommon /\ FreshSnapshots /\ FreshCounters /\ FreshStats
  /\ pc = "idle" /\ inventory = ServiceOrder
  /\ \E drawn \in Statuses : backendServices = initializeServices(drawn)

NextBackend ==
  \/ UpdateServiceMetrics
  \/ SimulateLoad
  \/ Remediate
  \/ Complete
  \/ ResetAll

SpecBackend == InitBackend /\ [][NextBackend]_vars

(***************************************************************************)
(* Properties of the backoff tracker.                                      *)
(***************************************************************************)
\* a step in which triggerRemediation(serviceId) starts
Begins(serviceId) ==
  /\ pc = "next"
  /\ queue # <<>>
  /\ Head(queue) = serviceId
  /\ queue' = Tail(queue)

\* a step in which triggerRemediation(serviceId) starts and passes the backoff check
Accepts(serviceId) == Begins(serviceId) /\ pc' = "fetching"

\* a step in which triggerRemediation(serviceId) starts and returns backoff_period
Rejects(serviceId) ==
  Begins(serviceId) /\ pc' = "next" /\ lastCall'.outcome = "backoff_period"

Tracked(serviceId) == serviceId \in DOMAIN persistentCriticalServices

\* C1: an accepted triggerRemediation call comes at least
\* backoffSchedule[min(triggerCount - 1, 3)] after the previous accepted call of the
\* same tracker, triggerCount being the tracker's count when the call is checked.
C1_BackoffMonotonicity ==
  [][\A s \in ServiceIds :
       (Accepts(s) /\ Tracked(s) /\ persistentCriticalServices[s].triggerCount >= 1)
       => now - persistentCriticalServices[s].lastTriggered >=
            backoffSchedule[Min(persistentCriticalServices[s].triggerCount - 1,
                                BackoffIndexCap) + 1]]_vars

\* a fifth call was accepted: every entry of the schedule has been waited for
C1_Witness ==
  \E s \in DOMAIN persistentCriticalServices :
    persistentCriticalServices[s].triggerCount = 5 /\ pc = "fetching"

\* C2: a call made when now - lastTriggered is smaller than the required backoff
\* returns {success: false, reason: backoff_period, wait_minutes} and changes
\* nothing: the tracker map is as before, no detail is fetched and no workflow
\* call is made; and so does every call that returns backoff_period.
C2_RejectionHasNoSideEffects ==
  [][\A s \in ServiceIds :
       /\ (Begins(s) /\ Tracked(s)
           /\ now - persistentCriticalServices[s].lastTriggered <
                backoffSchedule[Min(persistentCriticalServices[s].triggerCount,
                                    BackoffIndexCap) + 1])
          => Rejects(s)
       /\ Rejects(s)
          => /\ Tracked(s)
             /\ lastCall'.serviceId = s
             /\ lastCall'.success = FALSE
             /\ lastCall'.wait_minutes =
                  CeilDiv(backoffSchedule[Min(persistentCriticalServices[s].triggerCount,
                                              BackoffIndexCap) + 1]
                            - (now - persistentCriticalServices[s].lastTriggered),
                          MsPerMinute)
             /\ lastCall'.wait_minutes >= 1
             /\ ~lastCall'.fetched
             /\ ~lastCall'.called
             /\ persistentCriticalServices' = persistentCriticalServices]_vars

\* a call has just been rejected
C2_Witness ==
  /\ lastCall.outcome = "backoff_period"
  /\ lastCall.serviceId \in DOMAIN persistentCriticalServices
  /\ persistentCriticalServices[lastCall.serviceId].triggerCount >= 2

\* C3: a service triggered once and triggered again four minutes later is
\* rejected with a wait of about one minute (the 5-minute backoff less the four
\* minutes), no external call is made and triggerCount stays 1.
C3_SecondCallAfterFourMinutes ==
  [][\A s \in ServiceIds :
       (Begins(s) /\ Tracked(s)
        /\ persistentCriticalServices[s].triggerCount = 1
        /\ now - persistentCriticalServices[s].lastTriggered = 4 * MsPerMinute)
       => /\ Rejects(s)
          /\ lastCall'.wait_minutes \in {1, 2}
          /\ ~lastCall'.called
          /\ persistentCriticalServices'[s].triggerCount = 1]_vars

\* C8: while a tracker exists its triggerCount stays or grows by one in every
\* step, and the backoff selected from it never shrinks as the count grows and is
\* 60 minutes from a count of 3 on.
C8_CountAndBackoffMonotone ==
  [][\A s \in DOMAIN persistentCriticalServices \cap
               DOMAIN persistentCriticalServices' :
       LET c == persistentCriticalServices[s].triggerCount
           d == persistentCriticalServices'[s].triggerCount
       IN /\ d \in {c, c + 1}
          /\ d = c + 1 => Accepts(s)
          /\ currentBackoff(d) >= currentBackoff(c)
          /\ c >= BackoffIndexCap => currentBackoff(c) = 60 * MsPerMinute
          /\ c < BackoffIndexCap => currentBackoff(c) = backoffSchedule[c + 1]]_vars

\* a tracker past the end of the schedule is checked once more
C8_Witness ==
  /\ lastCall.outcome = "backoff_period"
  /\ lastCall.serviceId \in DOMAIN persistentCriticalServices
  /\ persistentCriticalServices[lastCall.serviceId].triggerCount = 4

(***************************************************************************)
(* Properties of the control loop's use of the tracker.                    *)
(***************************************************************************)
\* a step in which a poll's answer is taken and diffed
PollReturns == pc = "polling" /\ pc' = "next"

\* the ids of the services a snapshot shows critical
CriticalIn(services) ==
  {services[i].id : i \in {j \in 1..Len(services) : services[j].status = CRITICAL}}

\* C4: when the loop triggers a newly critical service that has no tracker, a
\* tracker is created for it with firstDetected = now, the call is not rejected
\* by the backoff check, and the tracker's triggerCount is exactly 1 after it.
C4_FirstTriggerIsImmediate ==
  [][\A s \in ServiceIds :
       (Begins(s) /\ caller = "loop" /\ ~Tracked(s))
       => /\ Accepts(s)
          /\ lastCall'.outcome # "backoff_period"
          /\ s \in DOMAIN persistentCriticalServices'
          /\ persistentCriticalServices'[s].firstDetected = now
          /\ persistentCriticalServices'[s].lastTriggered = now
          /\ persistentCriticalServices'[s].triggerCount = 1]_vars

\* the loop triggered the second of two services that became critical together
C4_Witness ==
  /\ caller = "loop"
  /\ pc = "fetching"
  /\ call.serviceId = "S2"
  /\ DOMAIN persistentCriticalServices = {"S1", "S2"}
  /\ persistentCriticalServices["S2"].triggerCount = 1
  /\ persistentCriticalServices["S2"].firstDetected = now

\* C5: a service that a cycle finds still critical and awaiting remediation, with
\* its tracker's backoff elapsed, is triggered again in that cycle.
C5_PersistentServiceIsRetriggered ==
  [][PollReturns =>
       \A s \in DOMAIN persistentCriticalServices :
         (/\ s \in DOMAIN previousState
          /\ previousState[s].status = CRITICAL
          /\ previousState[s].awaitingRemediation
          /\ \E x \in Elems(currentServices') : x.id = s /\ IsCriticalAwaiting(x)
          /\ now - persistentCriticalServices[s].lastTriggered >=
               backoffSchedule[Min(persistentCriticalServices[s].triggerCount,
                                   BackoffIndexCap) + 1])
         => \E i \in 1..Len(queue') : queue'[i] = s]_vars

\* a step in which a cycle of the control loop ends
CycleEnds == pc = "next" /\ caller = "loop" /\ pc' = "waiting"

\* C6: a tracked service that a cycle's snapshot showed with a status other
\* than critical has no tracker left when the cycle after that one ends (here
\* for the services that this later cycle did not find critical again), so that
\* a later critical episode starts from a fresh tracker.
C6_TrackerCleanedUpAfterRecovery ==
  [][CycleEnds =>
       \A s \in shownRecovered :
         s \notin CriticalIn(args) => s \notin DOMAIN persistentCriticalServices']_vars

(***************************************************************************)
(* Properties of the cleanup.                                              *)
(***************************************************************************)
\* a step in which checkAndTriggerPersistentRemediation runs its cleanup
CleansUp ==
  pc = "next" /\ queue = <<>> /\ caller = "persistent" /\ pc' = "idle"

\* C7: the cleanup removes exactly the trackers of the services that are not
\* critical in its argument and leaves the other trackers as they were; no other
\* step removes a tracker.
C7_CleanupRemovesExactlyRecovered ==
  [][/\ CleansUp
        => /\ DOMAIN persistentCriticalServices' =
                DOMAIN persistentCriticalServices \cap CriticalIn(args)
           /\ \A s \in DOMAIN persistentCriticalServices' :
                persistentCriticalServices'[s] = persistentCriticalServices[s]
           /\ recovered' = DOMAIN persistentCriticalServices \ CriticalIn(args)
     /\ ~CleansUp
        => DOMAIN persistentCriticalServices \subseteq
             DOMAIN persistentCriticalServices']_vars

\* a cleanup removed one tracker and kept the tracker of a service that is
\* critical but no longer awaiting remediation
C7_Witness ==
  /\ pc = "idle"
  /\ caller = "persistent"
  /\ recovered = {"S1"}
  /\ DOMAIN persistentCriticalServices = {"S2"}
  /\ persistentCriticalServices["S2"].triggerCount = 2

(***************************************************************************)
(* Properties of the token budget, over SpecBudget.                        *)
(***************************************************************************)
\* the step in which triggerLangflowWorkflow runs its admission check
Checks == gate = "idle" /\ gate' # "idle"

\* a ceiling with the 0.9 safety factor applied
Buffered(ceiling) == (ceiling * 9) \div 10

\* C9: canMakeRequest(t) answers true exactly when dailyTokens + t <= 450000,
\* minuteTokens + t <= 5400, dailyRequests + 1 <= 18000 and
\* minuteRequests + 1 <= 180 (the ceilings times 0.9); so a commit of t right
\* after a true answer leaves every counter within its buffered ceiling; and
\* the check changes no counter.
C9_CanMakeRequestIsExact ==
  [][Checks =>
       LET t == estimatedTokens'
           admitted == gate' = "posting"
       IN  /\ admitted <=>
                /\ dailyTokens + t <= Buffered(DailyTokenLimit)
                /\ minuteTokens + t <= Buffered(MinuteTokenLimit)
                /\ dailyRequests + 1 <= Buffered(DailyRequestLimit)
                /\ minuteRequests + 1 <= Buffered(MinuteRequestLimit)
           /\ admitted =>
                /\ dailyTokens + t <= 450000
                /\ minuteTokens + t <= 5400
                /\ dailyRequests + 1 <= 18000
                /\ minuteRequests + 1 <= 180
           /\ counters' = counters]_vars

\* a request denied by the per-minute request ceiling alone
C9_Witness ==
  /\ gate = "fallback"
  /\ minuteRequests = MinuteRequestBudget
  /\ minuteTokens + estimatedTokens <= MinuteTokenBudget
  /\ dailyTokens + estimatedTokens <= DailyTokenBudget
  /\ dailyRequests + 1 <= DailyRequestBudget

\* C10: with one triggerLangflowWorkflow call in flight at a time and the
\* minute and daily resets firing at any point, also between the admission
\* check and the recording of the usage, no counter ever exceeds its buffered
\* ceiling: minuteTokens <= 5400, dailyTokens <= 450000,
\* minuteRequests <= 180 and dailyRequests <= 18000.
C10_NoBudgetOverrun ==
  /\ minuteTokens <= 5400
  /\ dailyTokens <= 450000
  /\ minuteRequests <= 180
  /\ dailyRequests <= 18000

\* a recorded request that filled the per-minute token budget to the brim
C10_Witness ==
  /\ gate = "idle"
  /\ gateResult = "ai"
  /\ minuteTokens = MinuteTokenBudget
  /\ issued >= 2

\* C11: the recordRequest calls made since the minute counters were last reset
\* (minuteRequests counts them) never outnumber the canMakeRequest calls that
\* returned true since that reset, whatever the order of the reset timer and the
\* check, post and record steps of triggerLangflowWorkflow.
C11_NoDoubleCommit == minuteRequests <= admissions

\* a step in which the await of the post to the workflow engine ends
PostEnds == gate = "posting" /\ gate' # "posting"

\* C12: a post to the workflow engine that the admission check let through is
\* charged exactly once by the time it has answered, failed or timed out, and a
\* call that issues no post is charged nothing.
C12_IssuedCallIsChargedOnce ==
  [][/\ PostEnds => charged' = 1
     /\ (gate = "idle" /\ gate' = "fallback") => charged' = 0
     /\ (gate \in {"fallback", "remediating"} /\ gate' = "idle")
          => charged' = charged]_vars

\* a step in which triggerLangflowWorkflow starts and its admission check
\* refuses the estimate
Denies ==
  /\ issued' = issued + 1
  /\ \/ dailyTokens + estimatedTokens' > DailyTokenBudget
     \/ minuteTokens + estimatedTokens' > MinuteTokenBudget
     \/ dailyRequests + 1 > DailyRequestBudget
     \/ minuteRequests + 1 > MinuteRequestBudget

\* a step of fallbackBasicRemediation
FallbackSteps == gate \in {"fallback", "remediating"} /\ gate' # gate

\* C13: when the admission check denies, no post to the workflow engine is made
\* and no counter changes; the fallback runs, changes no counter either, and
\* its result, marked as fallback, is what the caller gets, never an error.
C13_DenialRoutesToFallback ==
  [][/\ Denies => gate' = "fallback" /\ counters' = counters
     /\ FallbackSteps =>
          /\ gate' \in {"remediating", "idle"}
          /\ counters' = counters
          /\ charged' = 0
          /\ gate' = "idle" =>
               triggerRemediationReturns(gateResult') \in
                 {"fallback", "fallback_failed"}]_vars

\* the fallback of a denied request chose restart_service for a cpu above 85
C13_Witness ==
  /\ gate = "remediating"
  /\ ~canMakeRequest(estimatedTokens)
  /\ serviceData.cpu = CpuThreshold + 1
  /\ action = "restart_service"

\* C14: whenever the post to the workflow engine does not succeed (it fails,
\* times out or answers with a rate limit), the fallback is invoked, and what the
\* caller of triggerRemediation gets is never the transport error.
C14_FailedCallFallsBack ==
  [][PostEnds =>
       /\ gate' = "fallback" \/ gateResult' = "ai"
       /\ triggerRemediationReturns(gateResult') # "error"]_vars

\* the metric is present in the fetched details and larger than the limit
High(metric, limit) ==
  serviceData.hasMetrics /\ metric # Undefined /\ metric > limit

\* C15: the fallback's action is that of the first rule that matches, in the
\* order cpu > 85: restart_service, memory > 85: scale_memory, error_rate > 10:
\* kill_connections, latency > 800: scale_instances, and restart_service when
\* none matches or the metrics are missing; it is always one of these four names.
C15_FallbackRuleTable ==
  gate = "remediating" =>
    /\ action \in {"restart_service", "scale_memory", "kill_connections",
                   "scale_instances"}
    /\ High(serviceData.cpu, 85) => action = "restart_service"
    /\ (~High(serviceData.cpu, 85) /\ High(serviceData.memory, 85))
         => action = "scale_memory"
    /\ (/\ ~High(serviceData.cpu, 85)
        /\ ~High(serviceData.memory, 85)
        /\ High(serviceData.error_rate, 10))
         => action = "kill_connections"
    /\ (/\ ~High(serviceData.cpu, 85)
        /\ ~High(serviceData.memory, 85)
        /\ ~High(serviceData.error_rate, 10)
        /\ High(serviceData.latency, 800))
         => action = "scale_instances"
    /\ (/\ ~High(serviceData.cpu, 85)
        /\ ~High(serviceData.memory, 85)
        /\ ~High(serviceData.error_rate, 10)
        /\ ~High(serviceData.latency, 800))
         => action = "restart_service"

\* both cpu and memory above their limits: the cpu rule wins
C15_Witness ==
  /\ gate = "remediating"
  /\ serviceData.cpu = 86
  /\ serviceData.memory = 86
  /\ serviceData.error_rate = 11
  /\ action = "restart_service"

\* a step in which fallbackBasicRemediation returns
FallbackEnds == gate \in {"fallback", "remediating"} /\ gate' = "idle"

\* C16: fallbackBasicRemediation never throws; it returns success, marked as
\* fallback and with the action it chose, exactly when its detail fetch and its
\* post both succeeded, and a failure marked as fallback when either failed.
C16_FallbackResultFollowsItsCalls ==
  [][FallbackEnds =>
       /\ gateResult' \in {"fallback", "fallback_failed"}
       /\ gateResult' = "fallback" <=>
            fallbackCalls'.fetch = "ok" /\ fallbackCalls'.post = "ok"
       /\ gateResult' = "fallback" => action' = action /\ action' # ""
       /\ gateResult' = "fallback_failed" <=>
            fallbackCalls'.fetch = "failed" \/ fallbackCalls'.post = "failed"]_vars

\* the details were fetched, the post failed, and the fallback returned a failure
C16_Witness ==
  /\ gate = "idle"
  /\ fallbackCalls = [fetch |-> "ok", post |-> "failed"]
  /\ gateResult = "fallback_failed"

(***************************************************************************)
(* Properties of the detector, over SpecDetector.                          *)
(***************************************************************************)
\* C17: detectCriticalChanges reports a service as newly critical exactly when
\* its current status is critical and it awaits remediation, and it is absent
\* from the previous state or its previous status is not critical; a service
\* that was critical before is never reported, whatever its flags were.
C17_NewlyCriticalExactly ==
  detection.called =>
    /\ Elems(detection.newCriticalServices) \subseteq Elems(currentServices)
    /\ \A s \in Elems(currentServices) :
         s \in Elems(detection.newCriticalServices) <=>
           /\ s.status = "critical"
           /\ s.awaitingRemediation = TRUE
           /\ \/ s.id \notin DOMAIN previousState
              \/ previousState[s.id].status # "critical"
    /\ \A s \in Elems(currentServices) :
         (s.id \in DOMAIN previousState /\ previousState[s.id].status = "critical")
           => s \notin Elems(detection.newCriticalServices)

\* S1 was critical without awaiting remediation and is not reported; S2 was
\* absent and is reported
C17_Witness ==
  /\ detection.called
  /\ "S1" \in DOMAIN previousState
  /\ previousState["S1"].status = CRITICAL
  /\ ~previousState["S1"].awaitingRemediation
  /\ "S2" \notin DOMAIN previousState
  /\ Len(currentServices) = 2
  /\ \A s \in Elems(currentServices) : IsCriticalAwaiting(s)
  /\ IdSeq(detection.newCriticalServices) = <<"S2">>

\* a step in which detectCriticalChanges runs
Detects == detections' = detections + 1

StoredFrom(stored, services) ==
  /\ DOMAIN stored = {services[i].id : i \in 1..Len(services)}
  /\ \A i \in 1..Len(services) :
       /\ stored[services[i].id].status = services[i].status
       /\ stored[services[i].id].awaitingRemediation =
            services[i].awaitingRemediation
       /\ stored[services[i].id].remediationInProgress =
            services[i].remediationInProgress

\* C19: a cycle whose poll succeeded stores its snapshot once, after the
\* detection has compared the snapshot with the state stored by the last earlier
\* successful cycle, and before any remediation is triggered; no other step
\* changes the stored state.
C19_StoreOncePerCycleAfterDetection ==
  [][/\ PollReturns =>
          /\ StoredFrom(previousState', currentServices')
          /\ \A s \in Elems(currentServices') :
               (\E i \in 1..Len(queue') : queue'[i] = s.id) <=>
                 /\ IsCriticalAwaiting(s)
                 /\ \/ s.id \notin DOMAIN previousState
                    \/ previousState[s.id].status # CRITICAL
     /\ ~PollReturns => previousState' = previousState
     /\ \A s \in ServiceIds :
          (Begins(s) /\ caller = "loop") => StoredFrom(previousState, args)]_vars

\* the third cycle finds S1 critical again after the second had stored it as
\* not critical
C19_Witness ==
  /\ pc = "next"
  /\ caller = "loop"
  /\ queue = <<"S1">>
  /\ shownRecovered = {"S1"}
  /\ previousState["S1"].status = CRITICAL

\* C20: the state tracker keeps one generation: the stored map has exactly the
\* ids of the snapshot last stored, each with that snapshot's status and flags
\* and the instant of that store, and a store drops every id the snapshot lacks.
C20_OneGenerationStored ==
  /\ StoredFrom(previousState, currentServices)
  /\ \A a, b \in DOMAIN previousState :
       previousState[a].timestamp = previousState[b].timestamp

\* S1 was stored and remediated in an earlier cycle; the snapshot just stored
\* lists S2 alone, and S1 is gone from the stored map
C20_Witness ==
  /\ pc = "next"
  /\ caller = "loop"
  /\ Len(currentServices) = 1
  /\ currentServices[1].id = "S2"
  /\ "S1" \in DOMAIN persistentCriticalServices
  /\ DOMAIN previousState = {"S2"}

(***************************************************************************)
(* Properties of the scheduling of the control loop, over Spec.            *)
(***************************************************************************)
\* C21: the interval is 10 seconds when some service of the snapshot is critical
\* and awaiting remediation, else 15 seconds when some service is in warning,
\* else 30 seconds; a service critical but not awaiting does not select the
\* 10 seconds; and a cycle that ends schedules the next one after exactly the
\* interval of the snapshot it polled.
C21_NextCycleAfterSnapshotInterval ==
  [][CycleEnds =>
       LET awaiting == \E i \in 1..Len(currentServices) :
                          /\ currentServices[i].status = CRITICAL
                          /\ currentServices[i].awaitingRemediation
           warning == \E i \in 1..Len(currentServices) :
                         currentServices[i].status = WARNING
           seconds == IF awaiting THEN 10 ELSE IF warning THEN 15 ELSE 30
       IN /\ timer'.armed
          /\ timer'.delay = seconds * 1000
          /\ timer'.due = now + seconds * 1000]_vars

\* a cycle over a snapshot with a service in warning and a critical service that
\* is not awaiting remediation has scheduled the next poll after 15 seconds
C21_Witness ==
  /\ pc = "waiting"
  /\ timer.armed
  /\ timer.delay = DegradedIntervalSec * 1000
  /\ \E i \in 1..Len(currentServices) :
       /\ currentServices[i].status = CRITICAL
       /\ ~currentServices[i].awaitingRemediation
  /\ \E i \in 1..Len(currentServices) : currentServices[i].status = WARNING

\* a step in which a poll fails
PollFails == pc = "polling" /\ pc' = "waiting"

\* C22: a failed poll ends its cycle alone: the stored state, the tracker map
\* and the statistics stay as they were, no remediation is triggered, the loop
\* keeps running, and the next cycle is scheduled 30 seconds later whatever the
\* interval of the last snapshot; so after every failed poll a next cycle is
\* scheduled.
C22_FailedPollAbortsOnlyItsCycle ==
  [][PollFails =>
       /\ previousState' = previousState
       /\ persistentCriticalServices' = persistentCriticalServices
       /\ remediationStats' = remediationStats
       /\ queue' = <<>> /\ call' = NoFrame /\ lastCall' = lastCall
       /\ isRunning'
       /\ timer'.armed
       /\ timer'.delay = 30000
       /\ timer'.due = now + 30000]_vars

\* a poll failed after a cycle that had found a service critical and awaiting
\* remediation and had recorded an attempt for it
C22_Witness ==
  /\ pc = "waiting"
  /\ timer.armed
  /\ timer.delay = RetryDelayMs
  /\ \E i \in 1..Len(currentServices) : IsCriticalAwaiting(currentServices[i])
  /\ remediationStats.totalAttempts > 0
  /\ DOMAIN persistentCriticalServices # {}

(***************************************************************************)
(* Properties of the record log and of the statistics, over SpecLog.       *)
(***************************************************************************)
\* C26: the record log never holds more than 100 records: its length is the
\* number of recordRemediationAttempt calls since the last reset, or 100 when
\* there were more; it holds the most recent records, newest first, so that the
\* record an append to a full log evicts is the oldest one.
C26_LogKeepsNewestHundred ==
  LET history == remediationStats.remediationHistory
      calls == remediationStats.totalAttempts
  IN /\ Len(history) <= 100
     /\ Len(history) = IF calls < 100 THEN calls ELSE 100
     /\ \A i \in 1..Len(history) : history[i].totalAttempts = calls - i + 1

\* the log is full and two records were evicted
C26_Witness ==
  /\ Len(remediationStats.remediationHistory) = HistoryCap
  /\ remediationStats.totalAttempts = HistoryCap + 2

\* C27: the statistics are a function of the record log: totalAttempts is the
\* number of records in the log, successfulRemediations the number of those with
\* success = true and failedRemediations the number of those with success =
\* false, the retention cap reached or not.
C27_StatsFollowTheLog ==
  LET history == remediationStats.remediationHistory
  IN /\ remediationStats.totalAttempts = Len(history)
     /\ remediationStats.successfulRemediations =
          Cardinality({i \in 1..Len(history) : history[i].success})
     /\ remediationStats.failedRemediations =
          Cardinality({i \in 1..Len(history) : ~history[i].success})

(***************************************************************************)
(* Properties of the detection of recoveries, over SpecStats.              *)
(***************************************************************************)
\* a step in which detectSuccessfulRemediations runs on the snapshot args'
Scans == scans' = scans + 1

\* the records of a service in a log
RecordsOf(history, serviceId) ==
  {i \in 1..Len(history) : history[i].serviceId = serviceId}

\* the number of records of a service that the step adds to the log
Added(serviceId) ==
  Cardinality(RecordsOf(remediationStats'.remediationHistory, serviceId))
    - Cardinality(RecordsOf(remediationStats.remediationHistory, serviceId))

\* the log holds a record of the service written less than 60 seconds ago
Recent(serviceId) ==
  \E i \in RecordsOf(remediationStats.remediationHistory, serviceId) :
     now - remediationStats.remediationHistory[i].timestamp < 60000

\* the service is healthy and neither awaits remediation nor is in remediation
Recovered(s) ==
  s.status = HEALTHY /\ ~s.awaitingRemediation /\ ~s.remediationInProgress

\* C24: when a service last observed critical is observed healthy with both
\* flags false, and the log holds no record of it from the last 60 seconds, the
\* scan appends exactly one record for it, a success of source 'detected'; the
\* state it stores is the healthy one, and a scan that finds the service healthy
\* again appends nothing for it.
C24_FlipRecordedOnce ==
  [][Scans =>
       \A i \in 1..Len(args') :
          LET s == args'[i]
              stored == remediationStats.lastProcessedServices
              newest == remediationStats'.remediationHistory[1]
          IN /\ ( /\ s.id \in DOMAIN stored
                  /\ stored[s.id].status = CRITICAL
                  /\ Recovered(s)
                  /\ ~Recent(s.id) )
                  => /\ Added(s.id) = 1
                     /\ newest.serviceId = s.id
                     /\ newest.success
                     /\ newest.source = "detected"
                     /\ newest.timestamp = now
                     /\ Recovered(remediationStats'.lastProcessedServices[s.id])
             /\ ( /\ s.id \in DOMAIN stored
                  /\ Recovered(stored[s.id])
                  /\ Recovered(s) )
                  => Added(s.id) = 0]_vars

\* the recovery of S1 was recorded once, and a scan more than 60 seconds later
\* found S1 healthy again
C24_Witness ==
  /\ scans >= 2
  /\ Cardinality({i \in RecordsOf(remediationStats.remediationHistory, "S1") :
                    remediationStats.remediationHistory[i].source = "detected"}) = 1
  /\ Len(args) = 1
  /\ Recovered(args[1])
  /\ \E i \in RecordsOf(remediationStats.remediationHistory, "S1") :
       /\ remediationStats.remediationHistory[i].source = "detected"
       /\ now - remediationStats.remediationHistory[i].timestamp >= 60000

\* C25: for a service with a stored state, a scan appends a 'detected' success
\* record exactly when the stored state was bad (critical, or in remediation, or
\* awaiting remediation), the observed state is healthy with both flags false,
\* and the log holds no record of the service, of any source, from the last 60
\* seconds; whatever it appended, it stores the observed state of each service
\* of the snapshot.
C25_DetectedRecordExactly ==
  [][Scans =>
       \A i \in 1..Len(args') :
          LET s == args'[i]
              stored == remediationStats.lastProcessedServices
              after == remediationStats'.lastProcessedServices
              bad == \/ stored[s.id].status = CRITICAL
                     \/ stored[s.id].remediationInProgress
                     \/ stored[s.id].awaitingRemediation
          IN /\ s.id \in DOMAIN stored =>
                  /\ Added(s.id) = IF bad /\ Recovered(s) /\ ~Recent(s.id)
                                   THEN 1 ELSE 0
                  /\ Added(s.id) = 1 =>
                       /\ remediationStats'.remediationHistory[1].success
                       /\ remediationStats'.remediationHistory[1].source = "detected"
             /\ s.id \in DOMAIN after
             /\ after[s.id].status = s.status
             /\ after[s.id].awaitingRemediation = s.awaitingRemediation
             /\ after[s.id].remediationInProgress = s.remediationInProgress]_vars

\* the recovery of S1 was recorded while the log held a record of S2 written at
\* the same instant
C25_Witness ==
  /\ scans = 1
  /\ ticks = 0
  /\ Len(remediationStats.remediationHistory) = 2
  /\ remediationStats.remediationHistory[1].source = "detected"
  /\ remediationStats.remediationHistory[1].serviceId = "S1"
  /\ remediationStats.remediationHistory[2].serviceId = "S2"

(***************************************************************************)
(* Properties of start and stop, over SpecLifecycle.                       *)
(***************************************************************************)
\* C23: cycles never overlap: whatever the order of start(), stop(), the expiry
\* of timers and the completion of cycles, at most one cycle is in flight and
\* at most one timer is pending.
C23_CyclesNeverOverlap ==
  /\ inFlight <= 1
  /\ Cardinality(pendingTimers) <= 1

(***************************************************************************)
(* Properties of the budget resets, over SpecBudget.                       *)
(***************************************************************************)
\* a step of a reset timer: the counters change while no request moves
Resets == counters' # counters /\ gate' = gate

\* C28: the reset timers only zero counters: a minute reset sets minuteTokens
\* and minuteRequests to 0 and leaves the daily counters, a daily reset sets
\* dailyTokens and dailyRequests to 0 and leaves the minute counters; and no
\* step, of a reset or of a request, leaves a counter negative.
C28_ResetsOnlyZero ==
  [][/\ Resets =>
          \/ /\ minuteTokens' = 0 /\ minuteRequests' = 0
             /\ dailyTokens' = dailyTokens /\ dailyRequests' = dailyRequests
          \/ /\ dailyTokens' = 0 /\ dailyRequests' = 0
             /\ minuteTokens' = minuteTokens /\ minuteRequests' = minuteRequests
     /\ dailyTokens' >= 0 /\ minuteTokens' >= 0
     /\ dailyRequests' >= 0 /\ minuteRequests' >= 0]_vars

\* the minute counters were reset while an admitted request was in flight, and
\* the daily counters kept their usage
C28_Witness ==
  /\ gate = "posting"
  /\ admissions = 0
  /\ minuteTokens = 0 /\ minuteRequests = 0
  /\ dailyTokens > 0 /\ dailyRequests > 0

(***************************************************************************)
(* Properties of the calls that pass the backoff check, over               *)
(* SpecRemediator.                                                         *)
(***************************************************************************)
\* a step in which the detail fetch or the external call of the call in flight
\* returns or fails
Returns == pc \in {"fetching", "calling"} /\ pc' # pc

\* C29: a call that passes the backoff check consumes a backoff slot: its
\* tracker has lastTriggered = now and one more in triggerCount before the
\* detail fetch starts, and neither the fetch nor the external call, failing or
\* not, changes the two again; the next call is checked against the backoff of
\* the higher count.
C29_AcceptedCallConsumesSlot ==
  [][/\ \A s \in ServiceIds :
          Accepts(s) =>
            /\ persistentCriticalServices'[s].lastTriggered = now
            /\ persistentCriticalServices'[s].triggerCount =
                 (IF Tracked(s) THEN persistentCriticalServices[s].triggerCount
                  ELSE 0) + 1
            /\ ~lastCall'.fetched /\ ~lastCall'.called
     /\ Returns =>
          /\ Tracked(call.serviceId)
          /\ persistentCriticalServices'[call.serviceId].lastTriggered =
               persistentCriticalServices[call.serviceId].lastTriggered
          /\ persistentCriticalServices'[call.serviceId].triggerCount =
               persistentCriticalServices[call.serviceId].triggerCount
          /\ persistentCriticalServices[call.serviceId].lastTriggered = call.now
          /\ persistentCriticalServices[call.serviceId].triggerCount >= 1]_vars

\* the second accepted call of S1 failed at the external call, and the tracker
\* still counts it
C29_Witness ==
  /\ pc = "next"
  /\ lastCall.serviceId = "S1"
  /\ lastCall.outcome = "error"
  /\ lastCall.called
  /\ Tracked("S1")
  /\ persistentCriticalServices["S1"].triggerCount = 2
  /\ persistentCriticalServices["S1"].lastTriggered = now

\* a step in which a triggerRemediation call returns to its caller
CallEnds ==
  /\ pc' = "next"
  /\ \/ pc \in {"fetching", "calling"}
     \/ pc = "next" /\ queue # <<>> /\ queue' = Tail(queue)

\* C30: triggerRemediation never throws: whatever the detail fetch and the
\* external call do, it returns an object with a boolean success, which is true
\* only when the external call returned successfully.
C30_TriggerAlwaysReturnsAResult ==
  [][CallEnds =>
       /\ lastCall'.outcome \in {"backoff_period", "error", "success"}
       /\ lastCall'.success \in BOOLEAN
       /\ lastCall'.success =>
            /\ pc = "calling"
            /\ lastCall'.outcome = "success"
            /\ lastCall'.fetched /\ lastCall'.called
       /\ lastCall'.outcome = "success" => lastCall'.success]_vars

\* a call whose detail fetch failed returned a failure, without an external call
C30_Witness ==
  /\ pc = "next"
  /\ lastCall.serviceId = "S1"
  /\ lastCall.outcome = "error"
  /\ lastCall.fetched
  /\ ~lastCall.called
  /\ ~lastCall.success

(***************************************************************************)
(* Properties of the 'watchman' records of processServices, over           *)
(* SpecAwait.                                                              *)
(***************************************************************************)
\* a step in which the loop of processServices records its attempt for
\* serviceId and calls triggerRemediation(serviceId)
LoopBegins(serviceId) == caller = "loop" /\ Begins(serviceId)

\* a step in which a triggerRemediation call of processServices that passed the
\* backoff check returns
LoopCallEnds == caller = "loop" /\ pc \in {"fetching", "calling"} /\ pc' = "next"

\* where the log holds the 'watchman' record appended for the call in flight
RecordOfCall(history) ==
  {i \in 1..Len(history) :
     /\ history[i].serviceId = call.serviceId
     /\ history[i].source = "watchman"
     /\ history[i].timestamp = call.now}

\* C31: for every newly critical service the loop of processServices
\* processes, with no reset in between, exactly one failed 'watchman' record is
\* put at the head of the log and totalAttempts grows by one, also when the
\* call is rejected for its backoff; when the call returns success = true that
\* record is turned into a success and moves from failedRemediations to
\* successfulRemediations, and when it returns a failure the statistics stay
\* as they are.
C31_WatchmanRecordFollowsResult ==
  [][LET history == remediationStats.remediationHistory
         after == remediationStats'.remediationHistory
     IN /\ \A s \in ServiceIds :
             LoopBegins(s) =>
               /\ remediationStats'.totalAttempts = remediationStats.totalAttempts + 1
               /\ remediationStats'.failedRemediations =
                    remediationStats.failedRemediations + 1
               /\ remediationStats'.successfulRemediations =
                    remediationStats.successfulRemediations
               /\ after # <<>>
               /\ after[1].serviceId = s
               /\ after[1].source = "watchman"
               /\ ~after[1].success
               /\ \A i \in 2..Len(after) : after[i] = history[i - 1]
        /\ LoopCallEnds =>
             IF lastCall'.success
             THEN /\ remediationStats'.totalAttempts = remediationStats.totalAttempts
                  /\ remediationStats'.successfulRemediations =
                       remediationStats.successfulRemediations + 1
                  /\ remediationStats'.failedRemediations =
                       remediationStats.failedRemediations - 1
                  /\ \E i \in RecordOfCall(after) : after[i].success
             ELSE remediationStats' = remediationStats]_vars

(***************************************************************************)
(* Properties of the counters under requests to the status server, over    *)
(* SpecServer.                                                             *)
(***************************************************************************)
\* C32: in every state the successful and the failed remediations add up to
\* totalAttempts and none of the three counters is negative, whatever requests
\* to /record-remediation and /reset-stats are handled between the steps of the
\* control loop, also between the append of a 'watchman' record and its turn
\* into a success.
C32_CountersAddUp ==
  /\ remediationStats.successfulRemediations + remediationStats.failedRemediations
       = remediationStats.totalAttempts
  /\ remediationStats.totalAttempts >= 0
  /\ remediationStats.successfulRemediations >= 0
  /\ remediationStats.failedRemediations >= 0

\* the statistics were reset while a call of the loop was awaiting, and the call
\* returned a success
C32_Witness ==
  /\ caller = "loop"
  /\ pc = "next"
  /\ lastCall.success
  /\ remediationStats.remediationHistory = <<>>
  /\ remediationStats.totalAttempts = 0

(***************************************************************************)
(* Properties of the changelog of the detector, over SpecDetector.         *)
(***************************************************************************)
\* where the changelog holds entries of serviceId
EntriesOf(changes, serviceId) ==
  {i \in 1..Len(changes) : changes[i].serviceId = serviceId}

\* C33: the stateChanges array detectCriticalChanges returns holds exactly one
\* entry for each service whose status differs from its stored previous status,
\* with that previous and that new status, and no entry for a service whose
\* status did not change or that has no previous state.
C33_ChangelogIsTheStatusDiff ==
  detection.called =>
    \A s \in Elems(currentServices) :
      LET entries == EntriesOf(detection.stateChanges, s.id)
      IN IF s.id \in DOMAIN previousState /\ previousState[s.id].status # s.status
         THEN /\ Cardinality(entries) = 1
              /\ \A i \in entries :
                   /\ detection.stateChanges[i].from = previousState[s.id].status
                   /\ detection.stateChanges[i].to = s.status
         ELSE entries = {}

(***************************************************************************)
(* Properties of the two-minute gate of the budget-gated orchestrator,     *)
(* over SpecGated.                                                         *)
(***************************************************************************)
\* a step in which the budget-gated triggerRemediation(serviceId) is called
GatedCalls(serviceId) ==
  /\ gate = "idle"
  /\ lastCall'.serviceId = serviceId
  /\ \/ lastCall' # lastCall
     \/ gate' # gate
     \/ remediationHistory' # remediationHistory

\* C34: the budget-gated triggerRemediation accepts two calls for one service
\* only 120000 ms or more apart.  A call made sooner returns too_soon and
\* neither writes the attempt entry of the service, nor consults or charges the
\* token budget, nor starts the external call or the fallback; an accepted call
\* stamps the entry with the time of the call and adds exactly one to its
\* attempts, and the entries change in no other step.
C34_AttemptsTwoMinutesApart ==
  [][/\ \A s \in ServiceIds :
          GatedCalls(s) =>
            LET known == s \in DOMAIN remediationHistory
            IN IF known /\ now - remediationHistory[s].timestamp < 120000
               THEN /\ lastCall'.outcome = "too_soon"
                    /\ remediationHistory' = remediationHistory
                    /\ gate' = "idle"
                    /\ UNCHANGED <<counters, issued, admissions, charged,
                                   estimatedTokens, gateResult, fallbackCalls>>
               ELSE /\ lastCall'.outcome = "pending"
                    /\ gate' \in {"posting", "fallback"}
                    /\ s \in DOMAIN remediationHistory'
                    /\ remediationHistory'[s].timestamp = now
                    /\ remediationHistory'[s].attempts =
                         (IF known THEN remediationHistory[s].attempts ELSE 0) + 1
                    /\ known => now - remediationHistory[s].timestamp >= 120000
                    /\ \A o \in DOMAIN remediationHistory \ {s} :
                         remediationHistory'[o] = remediationHistory[o]
     /\ remediationHistory' # remediationHistory =>
          \E s \in ServiceIds : GatedCalls(s)]_vars

\* S1 was accepted twice, exactly two minutes apart, and a third call a
\* millisecond less than two minutes later was turned away
C34_Witness ==
  /\ lastCall.serviceId = "S1"
  /\ lastCall.outcome = "too_soon"
  /\ "S1" \in DOMAIN remediationHistory
  /\ remediationHistory["S1"].attempts = 2
  /\ remediationHistory["S1"].timestamp = StartTime + MinRetryGapMs
  /\ now = remediationHistory["S1"].timestamp + MinRetryGapMs - 1

(***************************************************************************)
(* Properties of the system load, over SpecLoad.                           *)
(***************************************************************************)
\* the services of the last snapshot that pass a test, in percent of all of
\* them, are more than a limit
MoreThan(limit, passes(_)) ==
  100 * Cardinality({i \in 1..Len(currentServices) : passes(currentServices[i])})
    > limit * Len(currentServices)

IsWarning(service) == service.status = WARNING

\* C35: the system load is always one of Critical, High, Medium and Low:
\* Critical when more than 30% of the services are critical and awaiting
\* remediation; else High when more than 15% are, or more than 40% have a
\* warning; else Medium when more than 5% are, or more than 20% have a warning;
\* else Low.
C35_SystemLoadRule ==
  system_load # "none" =>
    /\ system_load \in {"Critical", "High", "Medium", "Low"}
    /\ system_load =
         IF MoreThan(30, IsCriticalAwaiting) THEN "Critical"
         ELSE IF MoreThan(15, IsCriticalAwaiting) \/ MoreThan(40, IsWarning)
              THEN "High"
         ELSE IF MoreThan(5, IsCriticalAwaiting) \/ MoreThan(20, IsWarning)
              THEN "Medium"
         ELSE "Low"

(***************************************************************************)
(* Properties of the inventory backend, over SpecBackend.                  *)
(***************************************************************************)
\* a step in which the named route or callback of the backend runs
Runs(op) == served'.op = op

\* a step in which it runs for the service id
RunsFor(op, id) == served'.op = op /\ served'.id = id

\* C36: at most one remediation of a service is in flight: POST
\* /services/:id/remediate answers 409 and changes nothing when the service is
\* neither critical nor awaiting remediation, or when its remediation is in
\* progress, and whatever remediate, reset and simulate-load requests, metric
\* updates and completions come in between, no service has two completions
\* pending.
C36_OneRemediationInFlight ==
  [][\A id \in ServiceIds :
       LET service == backendServices[id]
       IN /\ ( /\ RunsFor("remediate", id)
               /\ \/ service.status # CRITICAL /\ ~service.awaitingRemediation
                  \/ service.remediationInProgress )
             => /\ served'.code = 409
                /\ UNCHANGED <<backendServices, completions>>
          /\ completions'[id] <= 1]_vars

\* C37: a service that is critical and awaiting remediation, or whose
\* remediation is in progress, is frozen: updateServiceMetrics leaves its
\* metrics, its status and its flags as they are and simulate-load answers 409
\* and changes nothing, so that its status changes only when a remediation
\* completes or the services are reset; a critical service awaiting remediation
\* leaves the critical status in no other way.
C37_FrozenWhileAwaitingOrRemediating ==
  [][\A id \in ServiceIds :
       LET service == backendServices[id]
           isFrozen ==
             \/ service.status = CRITICAL /\ service.awaitingRemediation
             \/ service.remediationInProgress
       IN isFrozen =>
            /\ Runs("updateServiceMetrics") => backendServices'[id] = service
            /\ RunsFor("simulate-load", id) =>
                 /\ served'.code = 409
                 /\ UNCHANGED <<backendServices, completions>>
            /\ backendServices'[id].status # service.status =>
                 RunsFor("completion", id) \/ Runs("reset")
            /\ backendServices'[id].metrics # service.metrics =>
                 RunsFor("completion", id) \/ Runs("reset")]_vars

\* the metrics simulation ran while S1 was being remediated and left it alone,
\* and S2, which started healthy, has become critical
C37_Witness ==
  /\ served.op = "updateServiceMetrics"
  /\ backendServices["S1"].remediationInProgress
  /\ backendServices["S1"].status = CRITICAL
  /\ completions["S1"] = 1
  /\ backendServices["S2"].status = CRITICAL
  /\ backendServices["S2"].awaitingRemediation

\* C38: the three lifecycle fields of a service agree in every state:
\* awaitingRemediation and remediationInProgress are never both true, and a
\* service that awaits remediation is critical.
C38_LifecycleFieldsAgree ==
  \A id \in ServiceIds :
    LET service == backendServices[id]
    IN /\ ~(service.awaitingRemediation /\ service.remediationInProgress)
       /\ service.awaitingRemediation => service.status = CRITICAL

====
